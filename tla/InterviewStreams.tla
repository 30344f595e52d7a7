--------------------------- MODULE InterviewStreams ---------------------------
(***************************************************************************)
(* The interview of one experience as streams: a start, a message or an    *)
(* extension opens a stream of the AI server (InterviewFacade,             *)
(* HttpAiSseRelayAdapter) and relays it to the client (SseRelayUtil).  A   *)
(* message comes as a multipart form whose parts are read as events        *)
(* (InterviewChatStreamRequestParserService); the form with the PDF of a   *)
(* correction is read by a parser of its own                               *)
(* (ExternalPortfolioExtractRequestParserService).  Beside them the user    *)
(* may edit the experience, which saves the row as it was loaded           *)
(* (ExperienceService.updateExperience).                                   *)
(*                                                                         *)
(* A step is one event of a stream, one statement or one call.  Busboy     *)
(* hands over one part at a time and finishes when no file is being read.  *)
(***************************************************************************)
EXTENDS Naturals, FiniteSets

CONSTANTS
    Streams,       \* executions of the endpoints that stream, take a form or edit
    NoSession,     \* experience.session_id is null
    MaxFiles,      \* MAX_FILE_COUNT
    MaxParts       \* bound on the parts of a form

ASSUME StreamConstants == MaxFiles \in Nat /\ MaxParts \in Nat /\ NoSession \notin Streams

VARIABLES
    session,       \* experience.session_id: the start it was made by
    request,       \* where each execution is
    form,          \* what the parser of its form has read
    connection,    \* its stream of the AI server
    response,      \* what the client gets
    loaded,        \* the session_id in the row an edit has loaded
    overlapped     \* have two starts been under way together, or has a session been
                   \* saved while an edit had the row loaded

streamVars == <<session, request, form, connection, response, loaded, overlapped>>

Kinds == {"start", "chat", "extend", "pdf"}
NoForm == [parts |-> 0, open |-> FALSE, cut |-> FALSE, seen |-> 0, whole |-> 0,
           text |-> FALSE, signed |-> FALSE]

StreamsTypeOK ==
    /\ session \in Streams \cup {NoSession}
    /\ request \in [Streams ->
            [pc : {"idle", "form", "load", "state", "connect", "header", "save", "relay", "write", "over"},
             kind : Kinds \cup {"edit"}]]
    /\ form \in [Streams ->
            [parts : 0..MaxParts, open : BOOLEAN, cut : BOOLEAN, seen : 0..MaxParts,
             whole : 0..MaxParts, text : BOOLEAN, signed : BOOLEAN]]
    /\ connection \in [Streams -> {"none", "open", "closed"}]
    /\ response \in [Streams -> {"none", "accepted", "streaming", "ended", "error"}]
    /\ loaded \in [Streams -> Streams \cup {NoSession}]
    /\ overlapped \in BOOLEAN

StreamsInit ==
    /\ session = NoSession
    /\ request = [q \in Streams |-> [pc |-> "idle", kind |-> "start"]]
    /\ form = [q \in Streams |-> NoForm]
    /\ connection = [q \in Streams |-> "none"]
    /\ response = [q \in Streams |-> "none"]
    /\ loaded = [q \in Streams |-> NoSession]
    /\ overlapped = FALSE

-------------------------------------------------------------------------------
Reached(q, pc) == request[q].pc = pc
IsA(q, kind) == request[q].kind = kind
Goto(q, pc) == request' = [request EXCEPT ![q].pc = pc]

\* An exception reaches the filter: the client gets an error and nothing goes on.
Fails(q) ==
    /\ Goto(q, "over")
    /\ response' = [response EXCEPT ![q] = "error"]

Begin(q, kind) ==
    /\ Reached(q, "idle")
    /\ request' = [request EXCEPT ![q] =
            [pc |-> IF kind \in {"chat", "pdf"} THEN "form" ELSE "load", kind |-> kind]]
    /\ overlapped' = (overlapped \/ (/\ kind = "start"
                                     /\ \E p \in Streams : /\ IsA(p, "start")
                                                           /\ request[p].pc \notin {"idle", "relay", "over"}))
    /\ UNCHANGED <<session, form, connection, response, loaded>>

-------------------------------------------------------------------------------
(* The parsers                                                             *)

\* fail: the first failure settles the promise and unpipes the request; what busboy
\* still reads of it is not looked at.
Reject(q) == Fails(q) /\ UNCHANGED form

ReadMore(q) ==
    /\ Reached(q, "form")
    /\ ~form[q].open
    /\ form[q].parts < MaxParts

TakesText(q, texts) ==
    \/ \E text \in texts : form' = [form EXCEPT ![q].parts = @ + 1, ![q].text = text]
       /\ UNCHANGED <<request, response>>
    \/ Reject(q)

\* A field of a message: its text (a later blank one replaces it), another field, or one
\* that is refused (cut, or no positive integer).
ReadField(q) ==
    /\ ReadMore(q)
    /\ IsA(q, "chat")
    /\ TakesText(q, BOOLEAN)
    /\ UNCHANGED <<session, connection, loaded, overlapped>>

\* A field of the PDF's form: the number of the correction, one nobody reads, or no number.
ReadCorrectionId(q) ==
    /\ ReadMore(q)
    /\ IsA(q, "pdf")
    /\ TakesText(q, {form[q].text, TRUE})
    /\ UNCHANGED <<session, connection, loaded, overlapped>>

OpensFile(q) ==
    /\ form' = [form EXCEPT ![q].parts = @ + 1, ![q].open = TRUE, ![q].cut = FALSE,
                            ![q].seen = @ + 1]
    /\ UNCHANGED <<request, response>>

\* Files of a message; one of another field or type, or one too many, is refused.
ReadFile(q) ==
    /\ ReadMore(q)
    /\ IsA(q, "chat")
    /\ (form[q].seen < MaxFiles /\ OpensFile(q)) \/ Reject(q)
    /\ UNCHANGED <<session, connection, loaded, overlapped>>

\* The PDF; a file of another field is skipped, a second one or another type refused.
ReadPdf(q) ==
    /\ ReadMore(q)
    /\ IsA(q, "pdf")
    /\ \/ form[q].seen = 0 /\ OpensFile(q)
       \/ /\ form' = [form EXCEPT ![q].parts = @ + 1]
          /\ UNCHANGED <<request, response>>
       \/ Reject(q)
    /\ UNCHANGED <<session, connection, loaded, overlapped>>

Reading(q) == Reached(q, "form") /\ form[q].open

\* Mutant: the rest of a file that is too large is skipped, and no more.
SkipTheRest(q) ==
    /\ Reading(q)
    /\ form' = [form EXCEPT ![q].cut = TRUE]
    /\ UNCHANGED <<session, request, connection, response, loaded, overlapped>>

\* 'limit': busboy hands over no more of the file.
FileLimit(q) ==
    /\ Reading(q)
    /\ form' = [form EXCEPT ![q].cut = TRUE]
    /\ Fails(q)
    /\ UNCHANGED <<session, connection, loaded, overlapped>>

\* 'error' of a file or of the parser: the form is malformed.  (When the client goes away
\* instead, pipe() tells the parser nothing and the request stays where it is.)
FormFails(q) ==
    /\ Reached(q, "form")
    /\ Reject(q)
    /\ UNCHANGED <<session, connection, loaded, overlapped>>

\* 'end' of a file; the PDF's form joins the chunks when the form is finished.
FileEnds(q) ==
    /\ Reading(q)
    /\ \E signed \in BOOLEAN :
        form' = [form EXCEPT ![q].open = FALSE, ![q].signed = signed /\ IsA(q, "pdf"),
                             ![q].whole = IF form[q].cut THEN @ ELSE @ + 1]
    /\ UNCHANGED <<session, request, connection, response, loaded, overlapped>>

Finish(q, kind) ==
    /\ Reached(q, "form")
    /\ IsA(q, kind)
    /\ ~form[q].open
    /\ UNCHANGED <<session, form, connection, loaded, overlapped>>

\* 'finish': a message needs a text or a file.
FinishForm(q) ==
    /\ Finish(q, "chat")
    /\ IF form[q].text \/ form[q].seen > 0
       THEN Goto(q, "load") /\ UNCHANGED response
       ELSE Fails(q)

\* 'finish': the PDF's form needs its number and a file that begins like a PDF.
FinishPdf(q) ==
    /\ Finish(q, "pdf")
    /\ IF form[q].text /\ form[q].seen > 0 /\ form[q].signed
       THEN Goto(q, "over") /\ response' = [response EXCEPT ![q] = "accepted"]
       ELSE Fails(q)

-------------------------------------------------------------------------------
(* The facade and the relay                                                *)

\* A start is refused when there is a session, the others when there is none; the
\* experience, or the insight of a message, may be gone.
LoadExperience(q) ==
    /\ Reached(q, "load")
    /\ \/ /\ IsA(q, "start") <=> session = NoSession
          /\ Goto(q, IF IsA(q, "extend") THEN "state" ELSE "connect")
          /\ UNCHANGED response
       \/ Fails(q)
    /\ UNCHANGED <<session, form, connection, loaded, overlapped>>

\* getSessionState before an extension: the interview is complete, it is not, or the AI
\* server does not answer.
GetSessionState(q) ==
    /\ Reached(q, "state")
    /\ \/ Goto(q, "connect") /\ UNCHANGED response
       \/ Fails(q)
    /\ UNCHANGED <<session, form, connection, loaded, overlapped>>

OpenPostStream(q) ==
    /\ Reached(q, "connect")
    /\ \/ /\ connection' = [connection EXCEPT ![q] = "open"]
          /\ Goto(q, IF IsA(q, "start") THEN "header" ELSE "relay")
          /\ response' = [response EXCEPT ![q] = IF IsA(q, "start") THEN @ ELSE "streaming"]
       \/ Fails(q) /\ UNCHANGED connection
    /\ UNCHANGED <<session, form, loaded, overlapped>>

Close(q) == connection' = [connection EXCEPT ![q] = "closed"]

\* A stream without x-session-id is closed.
ExtractSessionId(q) ==
    /\ Reached(q, "header")
    /\ \/ Goto(q, "save") /\ UNCHANGED <<connection, response>>
       \/ Close(q) /\ Fails(q)
    /\ UNCHANGED <<session, form, loaded, overlapped>>

\* A session is saved over a row that an edit has loaded and will save.
EditPending == \E p \in Streams : Reached(p, "write")

\* Mutant: the save is not awaited, its failure is not seen.
SaveUnawaited(q) ==
    /\ Reached(q, "save")
    /\ session' \in {session, q}
    /\ Goto(q, "relay")
    /\ response' = [response EXCEPT ![q] = "streaming"]
    /\ overlapped' = (overlapped \/ EditPending)
    /\ UNCHANGED <<connection, form, loaded>>

\* saveInterviewSessionId does not look whether another start was faster; when it fails
\* the stream is closed.
SaveSessionId(q) ==
    /\ Reached(q, "save")
    /\ \/ /\ session' = q
          /\ Goto(q, "relay")
          /\ response' = [response EXCEPT ![q] = "streaming"]
          /\ overlapped' = (overlapped \/ EditPending)
          /\ UNCHANGED connection
       \/ Close(q) /\ Fails(q) /\ UNCHANGED <<session, overlapped>>
    /\ UNCHANGED <<form, loaded>>

\* finalize, once: the AI server's stream ended or failed, or the client is seen to go.
Finalize(q) ==
    /\ Reached(q, "relay")
    /\ Close(q)
    /\ response' = [response EXCEPT ![q] = "ended"]
    /\ Goto(q, "over")
    /\ UNCHANGED <<session, form, loaded, overlapped>>

-------------------------------------------------------------------------------
(* Edits of the experience                                                 *)

\* updateExperience loads the row ...
LoadForEdit(q) ==
    /\ Reached(q, "idle")
    /\ request' = [request EXCEPT ![q] = [pc |-> "write", kind |-> "edit"]]
    /\ loaded' = [loaded EXCEPT ![q] = session]
    /\ UNCHANGED <<session, form, connection, response, overlapped>>

\* ... and saves the whole of it, the session_id it has loaded included; or the save fails.
SaveExperience(q) ==
    /\ Reached(q, "write")
    /\ session' \in {loaded[q], session}
    /\ Goto(q, "over")
    /\ loaded' = [loaded EXCEPT ![q] = NoSession]
    /\ UNCHANGED <<form, connection, response, overlapped>>

StreamStep(q) ==
    \/ \E kind \in Kinds : Begin(q, kind)
    \/ ReadField(q)
    \/ ReadCorrectionId(q)
    \/ ReadFile(q)
    \/ ReadPdf(q)
    \/ FileLimit(q)
    \/ FormFails(q)
    \/ FileEnds(q)
    \/ FinishForm(q)
    \/ FinishPdf(q)
    \/ LoadExperience(q)
    \/ GetSessionState(q)
    \/ OpenPostStream(q)
    \/ ExtractSessionId(q)
    \/ SaveSessionId(q)
    \/ Finalize(q)
    \/ LoadForEdit(q)
    \/ SaveExperience(q)

StreamsNext == \E q \in Streams : StreamStep(q)

StreamsSpec == StreamsInit /\ [][StreamsNext]_streamVars

-------------------------------------------------------------------------------
\* A form that is passed on is whole: every file it began was read to its end below the
\* size limit, though the limit, the end and the finish are events of their own.
PassedFormIsWhole ==
    \A q \in Streams :
        request[q].pc \in {"load", "connect", "relay"} \/ response[q] = "accepted"
            => ~form[q].open /\ form[q].whole = form[q].seen

\* A stream of the AI server stays open only while a request holds it, and a start that
\* is relayed is the session later messages go to, whichever of its steps has failed.
\* Two starts at once are set aside: the second takes the first one's session away.  So
\* is a session saved while an edit has the row loaded: the edit saves its old session_id.
StreamsAreHeld ==
    \A q \in Streams : connection[q] = "open" =>
        \/ request[q].pc \in {"header", "save"}
        \/ /\ request[q].pc = "relay"
           /\ response[q] = "streaming"
           /\ IsA(q, "start") => (session = q \/ overlapped)
=============================================================================
