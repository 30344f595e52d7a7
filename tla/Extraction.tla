------------------------------ MODULE Extraction ------------------------------
(***************************************************************************)
(* The external portfolio of one correction: a PDF is sent to the AI       *)
(* server, its callback turns the activities it has found into blocks, and *)
(* the user adds, deletes and selects blocks (ExternalPortfolioFacade,     *)
(* InternalCorrectionResultFacade.savePdfExtractionResult,                 *)
(* PortfolioCorrectionFacade.selectPortfolios,                             *)
(* CorrectionPortfolioSelectionService).                                   *)
(*                                                                         *)
(* extractPortfolio is not a transaction and asks the AI server before it  *)
(* records that an extraction is running.  The other four are              *)
(* transactions under READ COMMITTED: a step is a statement they read by,  *)
(* and what they write is seen when they commit.                           *)
(***************************************************************************)
EXTENDS Naturals, FiniteSets

CONSTANTS
    Blocks,        \* ids the portfolio table may give out
    Uploads,       \* executions of extractPortfolio
    Extracted,     \* executions of savePdfExtractionResult
    Additions,     \* executions of createExternalPortfolioBlock or selectPortfolios
    MaxBlocks,     \* MAX_EXTERNAL_PORTFOLIO_BLOCKS
    MaxFaults      \* bound on crashes and lost replies

ASSUME ExtractionConstants ==
    /\ MaxBlocks \in Nat /\ MaxFaults \in Nat
    /\ IsFiniteSet(Uploads) /\ IsFiniteSet(Extracted) /\ IsFiniteSet(Additions)

VARIABLES
    pdfStatus,     \* portfolio_correction.pdf_extraction_status
    blocks,        \* external portfolios, each with its selection row
    selected,      \* those whose selection is active
    blockItems,    \* those with a correction item
    leftOut,       \* history: those of them the user has left out of a choice since
    upload,        \* where an extraction request is, and the status it has loaded
    extractJob,    \* what the AI server knows of an upload
    callback,      \* where a callback is, and what it has read and will create
    addition,      \* where an addition is, and what it has read
    settled,       \* answers taken from the AI server, up to one too many
    faults         \* what has gone wrong, once each

extractionVars ==
    <<pdfStatus, blocks, selected, blockItems, leftOut, upload, extractJob, callback, addition,
      settled, faults>>

PdfExtractionStatus == {"NONE", "GENERATING", "GENERATED", "FAILED"}
NoUpload == [pc |-> "idle", loaded |-> "NONE"]
NoAnswer == [pc |-> "idle", found |-> {}, old |-> {}, oldItems |-> {}]
NoAddition == [pc |-> "idle", kept |-> {}, old |-> {}]

ExtractionTypeOK ==
    /\ pdfStatus \in PdfExtractionStatus
    /\ blocks \subseteq Blocks
    /\ selected \subseteq blocks
    /\ blockItems \subseteq blocks
    /\ leftOut \subseteq blockItems
    /\ upload \in [Uploads ->
            [pc : {"idle", "asked", "generating", "fileName", "save", "over", "failed"},
             loaded : PdfExtractionStatus]]
    /\ extractJob \in [Uploads -> {"none", "sent", "accepted", "answered"}]
    /\ callback \in [Extracted ->
            [pc : {"idle", "failed", "select", "items", "commit"}, found : SUBSET Blocks,
             old : SUBSET Blocks, oldItems : SUBSET Blocks]]
    /\ addition \in [Additions ->
            [pc : {"idle", "select", "commit", "save"}, kept : SUBSET Blocks,
             old : SUBSET Blocks]]
    /\ settled \in 0..Cardinality(Uploads) + 1
    /\ faults \subseteq {"crash", "reply", "early", "overwrite", "overlap", "raced"}

ExtractionInit ==
    /\ pdfStatus = "NONE"
    /\ blocks = {} /\ selected = {} /\ blockItems = {} /\ leftOut = {}
    /\ upload = [x \in Uploads |-> NoUpload]
    /\ extractJob = [x \in Uploads |-> "none"]
    /\ callback = [k \in Extracted |-> NoAnswer]
    /\ addition = [a \in Additions |-> NoAddition]
    /\ settled = 0
    /\ faults = {}

Fault(kind) ==
    /\ kind \notin faults
    /\ Cardinality(faults \cap {"crash", "reply"}) < MaxFaults
    /\ faults' = faults \cup {kind}
OneMore(n) == IF n > Cardinality(Uploads) THEN n ELSE n + 1
Notice(kind, happens) == faults' = IF happens THEN faults \cup {kind} ELSE faults

\* Ids no transaction has taken, and the number of transactions that select blocks.
Fresh == Blocks \ (blocks \cup UNION {callback[k].found : k \in Extracted})
Busy == Cardinality({k \in Extracted : callback[k].pc # "idle"})
        + Cardinality({a \in Additions : addition[a].pc # "idle"})

-------------------------------------------------------------------------------
(* extractPortfolio                                                        *)

Upload(x) ==
    /\ upload[x].pc = "idle"
    /\ upload' = [upload EXCEPT ![x].pc = "asked"]
    /\ extractJob' = [extractJob EXCEPT ![x] = "sent"]
    /\ UNCHANGED <<pdfStatus, blocks, selected, blockItems, leftOut, callback, addition,
                   settled, faults>>

AcceptPdf(x) ==
    /\ extractJob[x] = "sent"
    /\ extractJob' = [extractJob EXCEPT ![x] = "accepted"]
    /\ UNCHANGED <<pdfStatus, blocks, selected, blockItems, leftOut, upload, callback, addition,
                   settled, faults>>

\* extractText returns; it is refused; or it fails after 60 seconds although the file
\* was accepted, and nothing records the extraction.
ExtractTextReturns(x) ==
    /\ upload[x].pc = "asked"
    /\ \/ /\ extractJob[x] \in {"accepted", "answered"}
          /\ upload' = [upload EXCEPT ![x].pc = "generating"]
          /\ UNCHANGED <<extractJob, faults>>
       \/ /\ extractJob[x] = "sent"
          /\ extractJob' = [extractJob EXCEPT ![x] = "none"]
          /\ upload' = [upload EXCEPT ![x].pc = "failed"]
          /\ UNCHANGED faults
       \/ /\ extractJob[x] \in {"accepted", "answered"}
          /\ Fault("reply")
          /\ upload' = [upload EXCEPT ![x].pc = "failed"]
          /\ UNCHANGED extractJob
    /\ UNCHANGED <<pdfStatus, blocks, selected, blockItems, leftOut, callback, addition, settled>>

SetGenerating(x) ==
    /\ upload[x].pc = "generating"
    /\ pdfStatus' = "GENERATING"
    /\ upload' = [upload EXCEPT ![x].pc = "fileName"]
    /\ UNCHANGED <<blocks, selected, blockItems, leftOut, extractJob, callback, addition,
                   settled, faults>>

\* updateOriginalFileName loads the row and saves it, the status as it was loaded.
LoadForFileName(x) ==
    /\ upload[x].pc = "fileName"
    /\ upload' = [upload EXCEPT ![x] = [pc |-> "save", loaded |-> pdfStatus]]
    /\ UNCHANGED <<pdfStatus, blocks, selected, blockItems, leftOut, extractJob, callback,
                   addition, settled, faults>>

SaveFileName(x) ==
    /\ upload[x].pc = "save"
    /\ pdfStatus' = upload[x].loaded
    /\ Notice("overwrite", upload[x].loaded # pdfStatus)
    /\ upload' = [upload EXCEPT ![x] = [pc |-> "over", loaded |-> "NONE"]]
    /\ UNCHANGED <<blocks, selected, blockItems, leftOut, extractJob, callback, addition,
                   settled>>

CrashUpload(x) ==
    /\ upload[x].pc \in {"asked", "generating", "fileName", "save"}
    /\ Fault("crash")
    /\ upload' = [upload EXCEPT ![x] =
            [pc |-> IF @.pc \in {"fileName", "save"} THEN "over" ELSE "failed", loaded |-> "NONE"]]
    /\ UNCHANGED <<pdfStatus, blocks, selected, blockItems, leftOut, extractJob, callback,
                   addition, settled>>

-------------------------------------------------------------------------------
(* savePdfExtractionResult                                                 *)

\* The AI server answers for a file it has accepted, and may answer again.
Answers(x) ==
    /\ extractJob[x] \in {"accepted", "answered"}
    /\ extractJob' = [extractJob EXCEPT ![x] = "answered"]

Take(k, found) ==
    /\ callback' = [callback EXCEPT ![k] =
            [NoAnswer EXCEPT !.pc = IF found = {} THEN "failed" ELSE "select", !.found = found]]
    /\ Notice("overlap", \E j \in Extracted : callback[j].pc # "idle")

\* Mutant: an answer is taken whatever the status.
ReceiveAtAnyTime(k) ==
    /\ callback[k].pc = "idle"
    /\ \E x \in Uploads : Answers(x)
    /\ \E found \in SUBSET Fresh : Cardinality(found) <= MaxBlocks /\ Take(k, found)
    /\ UNCHANGED <<pdfStatus, blocks, selected, blockItems, leftOut, upload, addition, settled>>

\* The status is read without a lock, so two callbacks may both be taken; `found' is
\* empty when the extraction has failed.
ReceiveExtraction(k) ==
    /\ callback[k].pc = "idle"
    /\ \E x \in Uploads : Answers(x)
    /\ pdfStatus = "GENERATING"
    /\ \E found \in SUBSET Fresh : Cardinality(found) <= MaxBlocks /\ Take(k, found)
    /\ UNCHANGED <<pdfStatus, blocks, selected, blockItems, leftOut, upload, addition, settled>>

\* Refused: the answer to an extraction that is not recorded yet is lost.
RefuseExtraction(x) ==
    /\ extractJob[x] = "accepted"
    /\ Answers(x)
    /\ pdfStatus # "GENERATING"
    /\ faults' = faults \cup {"early"}
    /\ UNCHANGED <<pdfStatus, blocks, selected, blockItems, leftOut, upload, callback, addition,
                   settled>>

\* activateSelections looks for the selections there are, deleteByCorrectionId for the
\* items.
SelectFound(k) ==
    /\ callback[k].pc = "select"
    /\ callback' = [callback EXCEPT ![k].pc = "items", ![k].old = blocks]
    /\ UNCHANGED <<pdfStatus, blocks, selected, blockItems, leftOut, upload, extractJob,
                   addition, settled, faults>>

\* Mutant: the items of the last extraction stay.
KeepOldItems(k) ==
    /\ callback[k].pc = "items"
    /\ callback' = [callback EXCEPT ![k].pc = "commit"]
    /\ UNCHANGED <<pdfStatus, blocks, selected, blockItems, leftOut, upload, extractJob,
                   addition, settled, faults>>

DeleteOldItems(k) ==
    /\ callback[k].pc = "items"
    /\ callback' = [callback EXCEPT ![k].pc = "commit", ![k].oldItems = blockItems]
    /\ UNCHANGED <<pdfStatus, blocks, selected, blockItems, leftOut, upload, extractJob,
                   addition, settled, faults>>

\* The answer and its blocks are there together; it is rolled back when a selection it
\* has read was deleted.
CommitExtraction(k) ==
    /\ callback[k].pc = "commit"
    /\ IF callback[k].old \subseteq blocks
       THEN /\ pdfStatus' = "GENERATED"
            /\ blocks' = blocks \cup callback[k].found
            /\ selected' = (selected \ callback[k].old) \cup callback[k].found
            /\ blockItems' = (blockItems \ callback[k].oldItems) \cup callback[k].found
            /\ leftOut' = {}
            /\ settled' = OneMore(settled)
       ELSE UNCHANGED <<pdfStatus, blocks, selected, blockItems, leftOut, settled>>
    /\ Notice("raced", Busy > 1 \/ ~(callback[k].old \subseteq blocks))
    /\ callback' = [callback EXCEPT ![k] = NoAnswer]
    /\ UNCHANGED <<upload, extractJob, addition>>

\* Mutant: a failure is only logged.
ForgetFailure(k) ==
    /\ callback[k].pc = "failed"
    /\ callback' = [callback EXCEPT ![k] = NoAnswer]
    /\ UNCHANGED <<pdfStatus, blocks, selected, blockItems, leftOut, upload, extractJob,
                   addition, settled, faults>>

CommitFailure(k) ==
    /\ callback[k].pc = "failed"
    /\ pdfStatus' = "FAILED"
    /\ settled' = OneMore(settled)
    /\ callback' = [callback EXCEPT ![k] = NoAnswer]
    /\ UNCHANGED <<blocks, selected, blockItems, leftOut, upload, extractJob, addition, faults>>

CrashCallback(k) ==
    /\ callback[k].pc # "idle"
    /\ Fault("crash")
    /\ callback' = [callback EXCEPT ![k] = NoAnswer]
    /\ UNCHANGED <<pdfStatus, blocks, selected, blockItems, leftOut, upload, extractJob,
                   addition, settled>>

-------------------------------------------------------------------------------
(* The user's blocks                                                       *)

\* createExternalPortfolioBlock counts the active selections ...
CountBlocks(a) ==
    /\ addition[a].pc = "idle"
    /\ Cardinality(selected) < MaxBlocks
    /\ addition' = [addition EXCEPT ![a] = [NoAddition EXCEPT !.pc = "select", !.kept = selected]]
    /\ UNCHANGED <<pdfStatus, blocks, selected, blockItems, leftOut, upload, extractJob,
                   callback, settled, faults>>

\* ... and activates them with the new one, and no other.
SelectBlock(a) ==
    /\ addition[a].pc = "select"
    /\ addition' = [addition EXCEPT ![a].pc = "commit", ![a].old = blocks]
    /\ UNCHANGED <<pdfStatus, blocks, selected, blockItems, leftOut, upload, extractJob,
                   callback, settled, faults>>

CommitBlock(a) ==
    /\ addition[a].pc = "commit"
    /\ \/ /\ addition[a].old \cup addition[a].kept \subseteq blocks
          /\ \E b \in Fresh :
                /\ blocks' = blocks \cup {b}
                /\ selected' = (selected \ addition[a].old) \cup addition[a].kept \cup {b}
       \/ /\ ~(addition[a].old \cup addition[a].kept \subseteq blocks)
          /\ UNCHANGED <<blocks, selected>>
    /\ Notice("raced", Busy > 1)
    /\ addition' = [addition EXCEPT ![a] = NoAddition]
    /\ UNCHANGED <<pdfStatus, blockItems, leftOut, upload, extractJob, callback, settled>>

\* selectPortfolios reads the portfolios the user has chosen, perhaps none of them a block,
\* and the selections there are (one that is deleted between the two rolls it back), ...
ChoosePortfolios(a) ==
    /\ addition[a].pc = "idle"
    /\ \E chosen \in SUBSET blocks :
        /\ Cardinality(chosen) <= MaxBlocks
        /\ addition' = [addition EXCEPT ![a] = [pc |-> "save", kept |-> chosen, old |-> blocks]]
    /\ UNCHANGED <<pdfStatus, blocks, selected, blockItems, leftOut, upload, extractJob, callback,
                   settled, faults>>

\* ... activates those and no other, and leaves the items alone.
CommitSelections(a) ==
    /\ addition[a].pc = "save"
    /\ IF addition[a].old \cup addition[a].kept \subseteq blocks
       THEN /\ selected' = (selected \ addition[a].old) \cup addition[a].kept
            /\ leftOut' = (leftOut \cup (selected \cap blockItems)) \ addition[a].kept
       ELSE UNCHANGED <<selected, leftOut>>
    /\ Notice("raced", Busy > 1)
    /\ addition' = [addition EXCEPT ![a] = NoAddition]
    /\ UNCHANGED <<pdfStatus, blocks, blockItems, upload, extractJob, callback, settled>>

\* deleteExternalPortfolio: the items, the selection and the portfolio, or nothing.
DeleteBlock(b) ==
    /\ b \in blocks
    /\ blocks' = blocks \ {b}
    /\ selected' = selected \ {b}
    /\ blockItems' = blockItems \ {b}
    /\ leftOut' = leftOut \ {b}
    /\ UNCHANGED <<pdfStatus, upload, extractJob, callback, addition, settled, faults>>

-------------------------------------------------------------------------------
UploadStep(x) ==
    \/ Upload(x)
    \/ AcceptPdf(x)
    \/ ExtractTextReturns(x)
    \/ SetGenerating(x)
    \/ LoadForFileName(x)
    \/ SaveFileName(x)
    \/ CrashUpload(x)
    \/ RefuseExtraction(x)

AnswerStep(k) ==
    \/ ReceiveExtraction(k)
    \/ SelectFound(k)
    \/ DeleteOldItems(k)
    \/ CommitExtraction(k)
    \/ CommitFailure(k)
    \/ CrashCallback(k)

ExtractionNext ==
    \/ \E x \in Uploads : UploadStep(x)
    \/ \E k \in Extracted : AnswerStep(k)
    \/ \E a \in Additions :
        \/ CountBlocks(a) \/ SelectBlock(a) \/ CommitBlock(a)
        \/ ChoosePortfolios(a) \/ CommitSelections(a)
    \/ \E b \in Blocks : DeleteBlock(b)

ExtractionSpec == ExtractionInit /\ [][ExtractionNext]_extractionVars

\* A live server goes on with what it has begun, and the AI server sooner or later
\* answers each file it has accepted.
FirstAnswer(k) ==
    /\ ReceiveExtraction(k)
    /\ \E x \in Uploads : extractJob[x] = "accepted" /\ extractJob'[x] = "answered"

ExtractionFairness ==
    /\ \A x \in Uploads :
        /\ WF_extractionVars(AcceptPdf(x))
        /\ WF_extractionVars(ExtractTextReturns(x) \/ SetGenerating(x))
        /\ WF_extractionVars(LoadForFileName(x) \/ SaveFileName(x))
    /\ WF_extractionVars(\E k \in Extracted : FirstAnswer(k))
    /\ \A k \in Extracted :
        WF_extractionVars(SelectFound(k) \/ DeleteOldItems(k) \/ CommitExtraction(k) \/ CommitFailure(k))

FairExtractionSpec == ExtractionSpec /\ ExtractionFairness

-------------------------------------------------------------------------------
\* The AI server's answers that count are at most the extractions that were recorded
\* as running: a duplicated or late callback creates no second set of blocks.  Two
\* callbacks at once and the save of a stale status are set aside.
AnsweredOncePerExtraction ==
    faults \cap {"overlap", "overwrite"} = {}
        => settled <= Cardinality({x \in Uploads : upload[x].pc \in {"fileName", "save", "over"}})

\* What will be reviewed is what the user sees selected: every item belongs to a block
\* that is there and selected, unless the user's own choice has left it out since,
\* through callbacks, additions, choices, deletions and crashes.  Transactions that
\* select blocks beside each other are set aside.
ItemsAreSelected == "raced" \notin faults => blockItems \subseteq selected \cup leftOut

\* An extraction that has to end.  A crash, a lost reply, an answer before the upload is
\* recorded, the save of a stale status, two answers at once and a transaction that was
\* rolled back may leave it running for ever.
ExtractionRuns == pdfStatus = "GENERATING" /\ faults = {}
=============================================================================
