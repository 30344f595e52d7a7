------------------------------- MODULE SmokeRun -------------------------------
(***************************************************************************)
(* scripts/smoke-dev-api.mjs: a client that reads the document of a        *)
(* deployed API, calls its operations one after the other with the token   *)
(* of a real user, and writes a report.  With --mutate it creates, changes *)
(* and deletes experiences of that user, so what matters beside the report *)
(* is which experience an operation is called for.                         *)
(*                                                                         *)
(* A step is one operation: it is skipped, or called and answered, and the *)
(* result is appended.  A call that is lost (a timeout, a dropped          *)
(* connection) may have been performed.  Payloads are abstracted to where  *)
(* they come from, experiences to their ids.                               *)
(***************************************************************************)
EXTENDS Naturals, FiniteSets, Sequences

CONSTANTS
    Document,       \* the paths of the API document in order, each with its methods
    SmokeArgs,      \* the command lines looked at
    OldIds,         \* ids the user's experiences may have before the run
    NewId,          \* the id of an experience the run creates
    Answers,        \* the statuses of refused calls looked at
    NoId            \* a value that is not known

DummyId == 1

\* The statuses ErrorMap gives to the exceptions of the API.
ErrorStatuses == {400, 401, 402, 403, 404, 409, 422, 500, 501, 502}

ASSUME SmokeConstants ==
    /\ DummyId \in OldIds /\ NewId \notin OldIds /\ NoId \notin OldIds \cup {NewId}
    /\ Answers \subseteq ErrorStatuses \cup {302}
    /\ SmokeArgs \subseteq
         [help : BOOLEAN, internal : BOOLEAN, mutate : BOOLEAN, secret : BOOLEAN,
          file : {"none", "given", "missing"}, only : SUBSET STRING]

\* The controller declares POST /experiences before the operations of one experience.
ASSUME DocumentOrder ==
    /\ Document \in Seq([path : STRING, methods : SUBSET STRING, param : STRING, content : STRING])
    /\ \A i \in DOMAIN Document : Document[i].path = "experience" =>
        /\ Document[i].param = "experienceId"
        /\ \A j \in DOMAIN Document : Document[j].path = "experiences" => j < i

VARIABLES
    args,           \* what parseArgs returns, and what the environment holds
    smoke,          \* where the run is, the operations, the context and the results
    api             \* the experiences of the user, and which of them calls have changed

smokeVars == <<args, smoke, api>>

Params == {"experienceId", "correctionId", "paymentId", "ticketProductId"}
Classes == {"implemented", "redirect", "validation_error", "auth_required", "payment_required",
            "not_found", "not_implemented", "server_error", "skipped", "network_error"}
Ends == {"helped", "refused", "failed", "reported"}

\* Where main stops at once: --help, and exit code 2 without a key, a token or the file.
FirstStep(a) ==
    CASE a.help -> "helped"
      [] ~a.help /\ a.internal -> IF a.secret THEN "select" ELSE "refused"
      [] OTHER -> IF a.secret /\ a.file # "missing" THEN "document" ELSE "refused"

SmokeInit ==
    /\ args \in SmokeArgs
    /\ smoke = [pc |-> FirstStep(args), ops |-> <<>>, ctx |-> [p \in Params |-> NoId],
                results |-> <<>>]
    /\ \E alive \in SUBSET OldIds : api = [alive |-> alive, before |-> alive,
                                           changed |-> {}, called |-> {}]

SmokeTypeOK ==
    /\ args \in SmokeArgs
    /\ smoke.pc \in {"document", "preflight", "select", "call"} \cup Ends
    /\ smoke.ctx \in [Params -> OldIds \cup {NewId, NoId}]
    /\ \A i \in DOMAIN smoke.results : smoke.results[i].class \in Classes
    /\ api.alive \subseteq OldIds \cup {NewId}
    /\ api.changed \subseteq OldIds \cup {NewId}
    /\ api.called \subseteq DOMAIN smoke.ops

-------------------------------------------------------------------------------
\* The static list of the internal mode; those that write are marked with mutate.
Endpoint(method, path) == [method |-> method, path |-> path, param |-> "none",
                           content |-> IF method = "GET" THEN "none" ELSE "json"]
InternalEndpoints ==
    << Endpoint("GET", "health"), Endpoint("GET", "search"), Endpoint("GET", "insight"),
       Endpoint("GET", "portfolio"), Endpoint("PATCH", "portfolio"),
       Endpoint("GET", "correction"), Endpoint("PATCH", "status"),
       Endpoint("PATCH", "company-insight"), Endpoint("PATCH", "result"),
       Endpoint("POST", "rag-data"), Endpoint("GET", "rag-data") >>

\* The members of a finite set as a list: there is one for a strict total order.
InOrder(S, Before(_, _)) ==
    {list \in [1..Cardinality(S) -> S] :
        \A m, n \in DOMAIN list : m < n => Before(list[m], list[n])}

InternalOperations ==
    LET Selected(e) == (e.method # "GET" => args.mutate) /\ e.path \in args.only
        slots == {i \in DOMAIN InternalEndpoints : Selected(InternalEndpoints[i])}
    IN {[n \in DOMAIN list |-> InternalEndpoints[list[n]]] :
            list \in InOrder(slots, LAMBDA i, j : i < j)}

\* The operations of the document: per path the methods in this order, writes with --mutate.
Methods == IF args.mutate THEN <<"GET", "POST", "PATCH", "DELETE">> ELSE <<"GET">>
Entry(item, m) == [method |-> m, path |-> item.path, param |-> item.param,
                   content |-> IF m = "GET" THEN "none" ELSE item.content]

DocumentOperations ==
    LET slots == {at \in (DOMAIN Document) \X (DOMAIN Methods) :
                    /\ Methods[at[2]] \in Document[at[1]].methods
                    /\ Document[at[1]].path \in args.only}
        Before(a, b) == a[1] < b[1] \/ (a[1] = b[1] /\ a[2] < b[2])
    IN {[n \in DOMAIN list |-> Entry(Document[list[n][1]], Methods[list[n][2]])] :
            list \in InOrder(slots, Before)}

\* The internal mode selects from its own list.
SelectInternal ==
    /\ smoke.pc = "select"
    /\ \E ops \in InternalOperations : smoke' = [smoke EXCEPT !.pc = "call", !.ops = ops]
    /\ UNCHANGED <<args, api>>

FetchDocument ==
    /\ smoke.pc = "document"
    /\ \/ smoke' = [smoke EXCEPT !.pc = "failed"]
       \/ \E ops \in DocumentOperations :
            smoke' = [smoke EXCEPT !.pc = "preflight", !.ops = ops]
    /\ UNCHANGED <<args, api>>

\* Three lists are asked for; one that fails or is empty leaves its id unknown.
Preflight ==
    /\ smoke.pc = "preflight"
    /\ \E product, correction \in {NoId, DummyId}, experience \in api.alive \cup {NoId} :
        smoke' = [smoke EXCEPT !.pc = "call",
                    !.ctx = [@ EXCEPT !["ticketProductId"] = product,
                                      !["correctionId"] = correction,
                                      !["experienceId"] = experience]]
    /\ UNCHANGED <<args, api>>

-------------------------------------------------------------------------------
Position == Len(smoke.results) + 1
Operation == smoke.ops[Position]
Calling == smoke.pc = "call" /\ Position <= Len(smoke.ops)

\* OAuth redirects, and uploads without a file.
ShouldSkip(op) ==
    \/ op.path = "oauth" /\ op.method = "GET"
    \/ op.content = "multipart" /\ args.file = "none"

\* A payment without a product, and the refresh, which needs a cookie.
EnvSkip(op) ==
    /\ op.method = "POST"
    /\ op.path = "refresh" \/ (op.path = "payments" /\ smoke.ctx["ticketProductId"] = NoId)

Skipped(op) == ~args.internal /\ (ShouldSkip(op) \/ EnvSkip(op))

\* The value of a path parameter: a known id, else the dummy of its type.
FillPathParam(param) == IF smoke.ctx[param] = NoId THEN DummyId ELSE smoke.ctx[param]
Target(op) == IF op.param = "none" THEN NoId ELSE FillPathParam(op.param)

\* Payloads the script knows by heart.
PayloadOverrides ==
    {<<"POST", "experiences">>, <<"PATCH", "experience">>, <<"POST", "corrections">>,
     <<"POST", "payments">>, <<"PATCH", "me">>, <<"PATCH", "marketing-consent">>,
     <<"POST", "sms-send">>, <<"POST", "sms-verify">>, <<"POST", "logout">>, <<"POST", "unlink">>}

\* A form with the file and dummies for the required fields.
MultipartBody == IF args.file = "none" THEN "none" ELSE "form"

\* A dummy for every property of the schema, whatever the handler demands of it.
DummyBody == "dummies"

\* Where the body of a call comes from.
BodyOf(op) ==
    CASE op.content = "multipart" -> MultipartBody
      [] op.content # "multipart" /\ op.method \in {"GET", "DELETE"} -> "none"
      [] OTHER -> IF <<op.method, op.path>> \in PayloadOverrides THEN "known"
                  ELSE IF op.content = "json" THEN DummyBody ELSE "none"

\* The API: an operation is performed if its experience is there and it has a body to read.
Performs(op) ==
    /\ op.param = "experienceId" => Target(op) \in api.alive
    /\ op.method \in {"POST", "PATCH"} => BodyOf(op) # "none"

\* fetchJson: an answer, or an exception; a lost call may have been performed.
FetchJson(op) ==
    {[done |-> FALSE, lost |-> FALSE, status |-> s] : s \in Answers}
    \cup {[done |-> FALSE, lost |-> TRUE, status |-> 0]}
    \cup (IF Performs(op) THEN {[done |-> TRUE, lost |-> TRUE, status |-> 0],
                                [done |-> TRUE, lost |-> FALSE, status |-> 200]} ELSE {})

\* What the API has done after a call.
ApiAfter(op, answer) ==
    LET id == IF op.path = "experiences" THEN NewId ELSE Target(op)
        writes == answer.done /\ op.method # "GET" /\ op.path \in {"experiences", "experience"}
    IN [api EXCEPT !.called = @ \cup {Position},
                   !.changed = IF writes THEN @ \cup {id} ELSE @,
                   !.alive = IF ~writes THEN @
                             ELSE IF op.method = "POST" THEN @ \cup {NewId}
                             ELSE IF op.method = "DELETE" THEN @ \ {id} ELSE @]

Classify(status, lost) ==
    CASE lost -> "network_error"
      [] ~lost /\ status \in 200..299 -> "implemented"
      [] ~lost /\ status \in 300..399 -> "redirect"
      [] ~lost /\ status = 401 -> "auth_required"
      [] ~lost /\ status = 402 -> "payment_required"
      [] ~lost /\ status = 404 -> "not_found"
      [] ~lost /\ status = 501 -> "not_implemented"
      [] ~lost /\ status >= 500 /\ status # 501 -> "server_error"
      [] OTHER -> "validation_error"

\* Mutant: the id of a created experience is not kept.
ForgetId(op, answer) == smoke.ctx

\* The ids of a created payment and a created experience are kept for later operations.
CaptureId(op, answer) ==
    LET created == ~answer.lost /\ answer.status = 200 /\ op.method = "POST" /\ ~args.internal
    IN CASE created /\ op.path = "experiences" -> [smoke.ctx EXCEPT !["experienceId"] = NewId]
         [] created /\ op.path = "payments" -> [smoke.ctx EXCEPT !["paymentId"] = NewId]
         [] OTHER -> smoke.ctx

Result(skipped, status, lost) ==
    [skipped |-> skipped, status |-> status, lost |-> lost,
     class |-> IF skipped THEN "skipped" ELSE Classify(status, lost)]

SkipOperation ==
    /\ Calling /\ Skipped(Operation)
    /\ smoke' = [smoke EXCEPT !.results = Append(@, Result(TRUE, 0, FALSE))]
    /\ UNCHANGED <<args, api>>

CallOperation ==
    /\ Calling /\ ~Skipped(Operation)
    /\ \E answer \in FetchJson(Operation) :
        /\ api' = ApiAfter(Operation, answer)
        /\ smoke' = [smoke EXCEPT !.ctx = CaptureId(Operation, answer),
                        !.results = Append(@, Result(FALSE, answer.status, answer.lost))]
    /\ UNCHANGED args

\* Every operation has its result: the report is written, or cannot be.
WriteReport ==
    /\ smoke.pc = "call" /\ Position > Len(smoke.ops)
    /\ smoke' \in {[smoke EXCEPT !.pc = "reported"], [smoke EXCEPT !.pc = "failed"]}
    /\ UNCHANGED <<args, api>>

SmokeNext ==
    \/ SelectInternal
    \/ FetchDocument
    \/ Preflight
    \/ SkipOperation
    \/ CallOperation
    \/ WriteReport

SmokeSpec == SmokeInit /\ [][SmokeNext]_smokeVars

-------------------------------------------------------------------------------
\* The two tables of the report: classes, and the buckets of earlier versions, which
\* look at the result again.
Having(Test(_)) == Cardinality({i \in DOMAIN smoke.results : Test(smoke.results[i])})
ClassificationBucket(class) == Having(LAMBDA r : r.class = class)
LegacyBuckets ==
    LET called(r, from, to) == ~r.skipped /\ ~r.lost /\ r.status \in from..to
    IN [skipped |-> Having(LAMBDA r : r.skipped),
        network |-> Having(LAMBDA r : ~r.skipped /\ r.lost),
        ok2xx |-> Having(LAMBDA r : called(r, 200, 299)),
        redirect3xx |-> Having(LAMBDA r : called(r, 300, 399)),
        client4xx |-> Having(LAMBDA r : called(r, 400, 499)),
        server5xx |-> Having(LAMBDA r : called(r, 500, 599))]

\* A written report has one result for each operation that was selected, one is skipped
\* exactly if it was not called, and the two tables count the same results: a failure of
\* the server is not reported as a refusal, and nothing drops out of both.
ReportAddsUp ==
    LET count(class) == ClassificationBucket(class)
    IN /\ Len(smoke.results) = Len(smoke.ops)
       /\ \A i \in DOMAIN smoke.ops : smoke.results[i].skipped <=> i \notin api.called
       /\ LegacyBuckets =
            [skipped |-> count("skipped"), network |-> count("network_error"),
             ok2xx |-> count("implemented"), redirect3xx |-> count("redirect"),
             client4xx |-> count("validation_error") + count("auth_required")
                            + count("payment_required") + count("not_found"),
             server5xx |-> count("server_error") + count("not_implemented")]

\* The API has answered the creation of an experience with its id.
MadeItsOwn == \E i \in DOMAIN smoke.results :
    <<smoke.ops[i].method, smoke.ops[i].path>> = <<"POST", "experiences">>
    /\ smoke.results[i].class = "implemented"

\* What the user had before the run survives it: without --mutate nothing is changed, and
\* once the API has answered with an experience made for the run, only that one is
\* renamed and deleted.  (If that answer is a refusal or is lost, the run goes on with
\* the first experience of the user.)  And the report that ends the run adds up.
OldExperiencesSurvive ==
    /\ ~args.mutate \/ MadeItsOwn => api.changed \cap api.before = {}
    /\ smoke.pc = "reported" => ReportAddsUp
=============================================================================
