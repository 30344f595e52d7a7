---------------------------- MODULE ServicesProofs ----------------------------
(***************************************************************************)
(* The services a user calls himself, for any number of requests, streams, *)
(* logs and tickets: a form that is passed on is whole, a stream is held,  *)
(* an insight has the vector of its text, and what the user was told of    *)
(* his tickets holds later.  (Accounts and sessions are in SessionsProofs.)*)
(***************************************************************************)
EXTENDS TicketReads, TicketLedgerProofs, Insights, ActivityTags, InterviewStreams

-------------------------------------------------------------------------------
(* Streams                                                                 *)

StreamRow ==
    [pc : {"idle", "form", "load", "state", "connect", "header", "save", "relay", "write", "over"},
     kind : Kinds \cup {"edit"}]
FormRow ==
    [parts : 0..MaxParts, open : BOOLEAN, cut : BOOLEAN, seen : 0..MaxParts,
     whole : 0..MaxParts, text : BOOLEAN, signed : BOOLEAN]
Connections == {"none", "open", "closed"}
Responses == {"none", "accepted", "streaming", "ended", "error"}
Underway == {"load", "state", "connect", "header", "save", "relay"}

\* A form being read has begun one file more than it has read whole while a file is open,
\* and none of its files was cut; one that is passed on is whole.
FormOf(r, f, answer) ==
    /\ f.seen <= f.parts
    /\ r.pc = "idle" \/ r.kind \in {"start", "extend", "edit"} => f = NoForm
    /\ r.pc = "form" => ~f.cut /\ f.seen = (IF f.open THEN f.whole + 1 ELSE f.whole)
    /\ r.pc \in Underway \/ answer = "accepted" => ~f.open /\ f.whole = f.seen
    /\ answer = "accepted" => r.pc = "over"

\* Only a request that goes on has an open stream.
HeldBy(r, c, answer) ==
    /\ c = "open" => r.pc \in {"header", "save", "relay"}
    /\ r.pc = "relay" => answer = "streaming"
    /\ r.pc \in {"header", "save"} => r.kind = "start"
    /\ r.pc = "state" => r.kind = "extend"

\* A start that has not made its session yet.
Starting(q) == IsA(q, "start") /\ request[q].pc \notin {"idle", "relay", "over"}

\* Starts that come one after the other: one at a time, the next when there is no session.
\* An edit knows the session, and writes it back.
StartInv ==
    ~overlapped =>
        /\ \A p, q \in Streams : Starting(p) /\ Starting(q) => p = q
        /\ \A q \in Streams : IsA(q, "start") /\ request[q].pc \in {"connect", "header", "save"}
                => session = NoSession
        /\ \A q \in Streams : IsA(q, "start") /\ request[q].pc = "relay" => session = q
        /\ \A q \in Streams : request[q].pc = "write" => loaded[q] = session

StreamsInv ==
    /\ StreamsTypeOK
    /\ \A q \in Streams : FormOf(request[q], form[q], response[q])
                          /\ HeldBy(request[q], connection[q], response[q])
    /\ StartInv

LEMMA NoFormRow == NoForm \in FormRow
<1>1. 0 \in 0..MaxParts
  BY StreamConstants
<1> QED BY <1>1 DEF NoForm, FormRow

LEMMA StreamsInvInit == StreamsInit => StreamsInv
<1> SUFFICES ASSUME StreamsInit PROVE StreamsInv
  OBVIOUS
<1> USE DEF StreamsInit
<1>1. StreamsTypeOK
  BY NoFormRow DEF StreamsTypeOK, FormRow, Kinds
<1>2. \A q \in Streams : FormOf(request[q], form[q], response[q])
                         /\ HeldBy(request[q], connection[q], response[q])
  BY DEF FormOf, HeldBy, NoForm, Underway
<1>3. StartInv
  BY DEF StartInv, Starting, IsA
<1> QED BY <1>1, <1>2, <1>3 DEF StreamsInv

LEMMA StreamFacts ==
    ASSUME StreamsInv, NEW q \in Streams
    PROVE  /\ request \in [Streams -> StreamRow] /\ form \in [Streams -> FormRow]
           /\ connection \in [Streams -> Connections] /\ response \in [Streams -> Responses]
           /\ request[q] \in StreamRow /\ form[q] \in FormRow
           /\ connection[q] \in Connections /\ response[q] \in Responses
           /\ session \in Streams \cup {NoSession} /\ overlapped \in BOOLEAN
           /\ FormOf(request[q], form[q], response[q])
           /\ HeldBy(request[q], connection[q], response[q])
           /\ request[q].pc \in {"idle", "form", "load", "state", "connect", "header", "save",
                                 "relay", "write", "over"}
           /\ request[q].kind \in Kinds \cup {"edit"}
           /\ loaded \in [Streams -> Streams \cup {NoSession}]
BY DEF StreamsInv, StreamsTypeOK, StreamRow, FormRow, Connections, Responses

\* A step of one request, which may be the one that saves its session.
LEMMA StreamMoves ==
    ASSUME StreamsInv, NEW q \in Streams, NEW r \in StreamRow, NEW f \in FormRow,
           NEW c \in Connections, NEW answer \in Responses,
           request' = [request EXCEPT ![q] = r], form' = [form EXCEPT ![q] = f],
           connection' = [connection EXCEPT ![q] = c], response' = [response EXCEPT ![q] = answer],
           overlapped' \in BOOLEAN, overlapped => overlapped', loaded' = loaded,
           r.pc # "write" \/ request[q].pc = "write",
           ~overlapped' /\ EditPending => session' = session,
           FormOf(r, f, answer), HeldBy(r, c, answer),
           \/ session' = session
           \/ request[q].pc = "save" /\ r.pc = "relay" /\ session' = q,
           ~overlapped' /\ r.kind = "start" /\ r.pc \notin {"idle", "relay", "over"} =>
                Starting(q) \/ \A p \in Streams : ~Starting(p),
           ~overlapped' /\ r.kind = "start" /\ r.pc \in {"connect", "header", "save"} =>
                session = NoSession /\ session' = session,
           ~overlapped' /\ r.kind = "start" /\ r.pc = "relay" => session' = q
    PROVE  StreamsInv'
<1> USE StreamFacts
<1>1. StreamsTypeOK'
  BY DEF StreamsTypeOK, StreamRow, FormRow, Connections, Responses
<1>2. \A z \in Streams : /\ request'[z] = IF z = q THEN r ELSE request[z]
                         /\ form'[z] = IF z = q THEN f ELSE form[z]
                         /\ connection'[z] = IF z = q THEN c ELSE connection[z]
                         /\ response'[z] = IF z = q THEN answer ELSE response[z]
  OBVIOUS
<1>3. \A z \in Streams : FormOf(request'[z], form'[z], response'[z])
  BY <1>2
<1>4. \A z \in Streams : HeldBy(request'[z], connection'[z], response'[z])
  BY <1>2
<1>5. (\A z \in Streams : FormOf(request[z], form[z], response[z])
                         /\ HeldBy(request[z], connection[z], response[z]))'
  BY <1>3, <1>4 DEF FormOf, HeldBy
<1>6. StartInv'
  <2> SUFFICES ASSUME ~overlapped' PROVE StartInv'
    BY DEF StartInv
  <2>1. StartInv /\ ~overlapped
    BY DEF StreamsInv
  <2>2. \A z \in Streams : Starting(z)' =
            IF z = q THEN r.kind = "start" /\ r.pc \notin {"idle", "relay", "over"} ELSE Starting(z)
    BY <1>2 DEF Starting, IsA
  <2>3. \A y, z \in Streams : Starting(y)' /\ Starting(z)' => y = z
    BY <2>1, <2>2 DEF StartInv
  <2>4. session' # session => Starting(q) /\ session = NoSession /\ session' = q
    BY <2>1 DEF HeldBy, StartInv, Starting, IsA
  <2>5. \A z \in Streams : IsA(z, "start")' /\ request'[z].pc \in {"connect", "header", "save"} =>
            session' = NoSession
    <3> SUFFICES ASSUME NEW z \in Streams, z # q, request[z].kind = "start",
                        request[z].pc \in {"connect", "header", "save"}
                 PROVE  session' = NoSession
      BY <1>2 DEF IsA
    <3>1. Starting(z) /\ session = NoSession
      BY <2>1 DEF StartInv, Starting, IsA
    <3>2. ~Starting(q)
      BY <2>1, <3>1 DEF StartInv
    <3> QED BY <2>4, <3>1, <3>2
  <2>6. \A z \in Streams : IsA(z, "start")' /\ request'[z].pc = "relay" => session' = z
    <3> SUFFICES ASSUME NEW z \in Streams, z # q, request[z].kind = "start", request[z].pc = "relay"
                 PROVE  session' = z
      BY <1>2 DEF IsA
    <3>1. session = z
      BY <2>1 DEF StartInv, IsA
    <3> QED BY <2>4, <3>1, StreamConstants
  <2>7. \A z \in Streams : request'[z].pc = "write" => loaded'[z] = session'
    BY <1>2, <2>1 DEF StartInv, EditPending, Reached
  <2> QED BY <2>3, <2>5, <2>6, <2>7 DEF StartInv
<1> QED BY <1>1, <1>5, <1>6 DEF StreamsInv

LEMMA BeginKeeps ==
    ASSUME StreamsInv, NEW q \in Streams, NEW kind \in Kinds, Begin(q, kind)
    PROVE  StreamsInv'
<1> USE StreamFacts
<1> DEFINE r == [pc |-> IF kind \in {"chat", "pdf"} THEN "form" ELSE "load", kind |-> kind]
<1>1. /\ r \in StreamRow /\ r.kind = kind
      /\ r.pc = IF kind \in {"chat", "pdf"} THEN "form" ELSE "load"
  BY DEF StreamRow
<1>2. /\ request[q].pc = "idle" /\ request' = [request EXCEPT ![q] = r]
      /\ form' = [form EXCEPT ![q] = form[q]] /\ connection' = [connection EXCEPT ![q] = connection[q]]
      /\ response' = [response EXCEPT ![q] = response[q]] /\ session' = session /\ loaded' = loaded
  BY DEF Begin, Reached
<1> HIDE DEF r
<1>3. overlapped' \in BOOLEAN /\ (overlapped => overlapped')
      /\ (~overlapped' /\ kind = "start" => \A p \in Streams : ~Starting(p))
  BY DEF Begin, Starting
<1>4. FormOf(r, form[q], response[q])
  BY <1>1, <1>2 DEF FormOf, NoForm, Kinds, Underway
<1>5. HeldBy(r, connection[q], response[q])
  BY <1>1, <1>2 DEF HeldBy
<1> QED BY <1>1, <1>2, <1>3, <1>4, <1>5, StreamMoves

\* An execution that ends without a form, or with an error.
LEMMA EndKeeps ==
    ASSUME StreamsInv, NEW q \in Streams, request[q].pc # "idle",
           request' = [request EXCEPT ![q].pc = "over"],
           NEW f \in FormRow, form' = [form EXCEPT ![q] = f],
           f.seen <= f.parts, request[q].kind \in {"start", "extend", "edit"} => f = NoForm,
           NEW c \in {"none", "closed"}, connection' = [connection EXCEPT ![q] = c],
           NEW answer \in Responses, response' = [response EXCEPT ![q] = answer],
           answer = "accepted" => ~f.open /\ f.whole = f.seen,
           UNCHANGED <<session, loaded, overlapped>>
    PROVE  StreamsInv'
<1> USE StreamFacts
<1> DEFINE r == [request[q] EXCEPT !.pc = "over"]
<1>1. r \in StreamRow /\ r.pc = "over" /\ r.kind = request[q].kind
  BY DEF StreamRow
<1>2. request' = [request EXCEPT ![q] = r] /\ c \in Connections
  BY DEF Connections
<1> HIDE DEF r
<1>3. FormOf(r, f, answer) /\ HeldBy(r, c, answer)
  BY <1>1 DEF FormOf, HeldBy, Underway
<1> QED BY <1>1, <1>2, <1>3, StreamMoves

\* The parser reads on.
LEMMA ReadKeeps ==
    ASSUME StreamsInv, NEW q \in Streams, request[q].pc = "form", request[q].kind \in {"chat", "pdf"},
           NEW f \in FormRow, form' = [form EXCEPT ![q] = f],
           f.seen <= f.parts, ~f.cut, f.seen = (IF f.open THEN f.whole + 1 ELSE f.whole),
           UNCHANGED <<session, request, connection, response, loaded, overlapped>>
    PROVE  StreamsInv'
<1> DEFINE r == request[q]
           c == connection[q]
           answer == response[q]
<1>1. /\ request' = [request EXCEPT ![q] = r]
      /\ connection' = [connection EXCEPT ![q] = c]
      /\ response' = [response EXCEPT ![q] = answer]
  BY StreamFacts
<1>2. FormOf(r, f, answer)
  BY StreamFacts DEF FormOf, Underway
<1>3. r.kind # "start" /\ r.pc # "write"
  OBVIOUS
<1>4. /\ r \in StreamRow /\ c \in Connections /\ answer \in Responses
      /\ HeldBy(r, c, answer) /\ overlapped' \in BOOLEAN
  BY StreamFacts
<1>5. session' = session /\ loaded' = loaded /\ (overlapped => overlapped')
  OBVIOUS
<1> HIDE DEF r, c, answer
<1> QED BY <1>1, <1>2, <1>3, <1>4, <1>5, StreamMoves

LEMMA ParserKeeps ==
    ASSUME StreamsInv, NEW q \in Streams,
           \/ ReadField(q) \/ ReadCorrectionId(q) \/ ReadFile(q) \/ ReadPdf(q)
           \/ FileLimit(q) \/ FormFails(q) \/ FileEnds(q)
    PROVE  StreamsInv'
<1> USE StreamFacts
<1>1. /\ request[q].pc = "form" /\ UNCHANGED <<session, connection, loaded, overlapped>>
      /\ form[q].cut = FALSE /\ form[q].seen = (IF form[q].open THEN form[q].whole + 1 ELSE form[q].whole)
      /\ form[q].seen <= form[q].parts
      /\ connection[q] \in {"none", "closed"}
      /\ request[q].kind \in {"start", "extend", "edit"} => form[q] = NoForm
  BY DEF ReadField, ReadCorrectionId, ReadFile, ReadPdf, FileLimit, FormFails, FileEnds,
         ReadMore, Reading, Reached, FormOf, HeldBy, Connections, FormRow
<1>2. connection' = [connection EXCEPT ![q] = connection[q]]
  BY <1>1
<1>3. form[q].parts \in 0..MaxParts /\ form[q].whole \in 0..MaxParts /\ form[q].seen \in 0..MaxParts
      /\ form[q].open \in BOOLEAN /\ form[q].text \in BOOLEAN
  BY DEF FormRow
<1>4. CASE Reject(q)
  <2>1. /\ request' = [request EXCEPT ![q].pc = "over"] /\ response' = [response EXCEPT ![q] = "error"]
        /\ form' = [form EXCEPT ![q] = form[q]]
    BY <1>4 DEF Reject, Fails, Goto
  <2> QED BY <1>1, <1>2, <2>1, EndKeeps DEF Responses
<1>5. CASE FileLimit(q)
  <2> DEFINE f == [form[q] EXCEPT !.cut = TRUE]
  <2>1. f \in FormRow /\ f.seen = form[q].seen /\ f.parts = form[q].parts
    BY DEF FormRow
  <2>2. /\ request' = [request EXCEPT ![q].pc = "over"] /\ response' = [response EXCEPT ![q] = "error"]
        /\ form' = [form EXCEPT ![q] = f] /\ form[q].open
    BY <1>5 DEF FileLimit, Fails, Goto, Reading
  <2> HIDE DEF f
  <2>3. request[q].kind \notin {"start", "extend", "edit"}
    BY <1>1, <2>2 DEF NoForm
  <2>4. f.seen <= f.parts /\ "error" \in Responses
    BY <1>1, <2>1 DEF Responses
  <2> HIDE StreamFacts
  <2> QED BY <1>1, <1>2, <2>1, <2>2, <2>3, <2>4, EndKeeps
<1>6. ASSUME ~form[q].open, form[q].parts < MaxParts, request[q].kind \in {"chat", "pdf"},
             NEW text \in BOOLEAN, form' = [form EXCEPT ![q].parts = @ + 1, ![q].text = text],
             UNCHANGED <<request, response>>
      PROVE  StreamsInv'
  <2> DEFINE f == [form[q] EXCEPT !.parts = @ + 1, !.text = text]
  <2>0. form[q].parts + 1 \in 0..MaxParts
    BY <1>3, <1>6, StreamConstants
  <2>1. /\ f \in FormRow /\ f.seen = form[q].seen /\ f.parts = form[q].parts + 1 /\ f.cut = form[q].cut
        /\ f.open = form[q].open /\ f.whole = form[q].whole
    BY <1>3, <1>6, <2>0 DEF FormRow
  <2>2. form' = [form EXCEPT ![q] = f]
    BY <1>6
  <2> HIDE DEF f
  <2>3. f.seen <= f.parts
    BY <1>1, <1>3, <2>1
  <2> QED BY <1>1, <1>6, <2>1, <2>2, <2>3, ReadKeeps
<1>7. ASSUME ~form[q].open, form[q].parts < MaxParts, request[q].kind \in {"chat", "pdf"}, OpensFile(q)
      PROVE  StreamsInv'
  <2> DEFINE f == [form[q] EXCEPT !.parts = @ + 1, !.open = TRUE, !.cut = FALSE, !.seen = @ + 1]
  <2>0. form[q].parts + 1 \in 0..MaxParts /\ form[q].seen + 1 \in 0..MaxParts
    BY <1>1, <1>3, <1>7, StreamConstants
  <2>1. /\ f \in FormRow /\ f.seen = form[q].seen + 1 /\ f.parts = form[q].parts + 1 /\ f.cut = FALSE
        /\ f.open = TRUE /\ f.whole = form[q].whole
    BY <1>3, <1>7, <2>0 DEF FormRow
  <2>2. form' = [form EXCEPT ![q] = f] /\ UNCHANGED <<request, response>>
    BY <1>7 DEF OpensFile
  <2> HIDE DEF f
  <2>3. f.seen <= f.parts /\ f.seen = f.whole + 1
    BY <1>1, <1>3, <1>7, <2>1
  <2> QED BY <1>1, <1>7, <2>1, <2>2, <2>3, ReadKeeps
<1>8. CASE FileEnds(q)
  <2>1. PICK signed \in BOOLEAN :
          form' = [form EXCEPT ![q].open = FALSE, ![q].signed = signed /\ IsA(q, "pdf"),
                               ![q].whole = IF form[q].cut THEN @ ELSE @ + 1]
    BY <1>8 DEF FileEnds
  <2>2. form[q].open /\ UNCHANGED <<request, response>>
    BY <1>8 DEF FileEnds, Reading
  <2>3. form[q].open = TRUE /\ form[q].seen = form[q].whole + 1 /\ request[q].kind \in {"chat", "pdf"}
    BY <1>1, <1>3, <2>2 DEF NoForm, Kinds
  <2> DEFINE f == [form[q] EXCEPT !.open = FALSE, !.signed = signed /\ IsA(q, "pdf"), !.whole = @ + 1]
  <2>4. (signed /\ IsA(q, "pdf")) \in BOOLEAN
    BY DEF IsA
  <2>5. /\ f \in FormRow /\ f.seen = form[q].seen /\ f.parts = form[q].parts /\ f.cut = form[q].cut
        /\ f.open = FALSE /\ f.whole = form[q].whole + 1
    BY <1>3, <2>3, <2>4, StreamConstants DEF FormRow
  <2>6. form' = [form EXCEPT ![q] = f]
    BY <1>1, <2>1
  <2> HIDE DEF f
  <2> QED BY <1>1, <2>2, <2>3, <2>5, <2>6, ReadKeeps
<1>9. CASE ReadPdf(q)
  <2>1. CASE form' = [form EXCEPT ![q].parts = @ + 1] /\ UNCHANGED <<request, response>>
    <3>1. form' = [form EXCEPT ![q].parts = @ + 1, ![q].text = form[q].text]
      BY <1>3, <2>1 DEF FormRow
    <3> QED BY <1>3, <1>6, <1>9, <2>1, <3>1 DEF ReadPdf, ReadMore, IsA
  <2> QED BY <1>4, <1>7, <1>9, <2>1 DEF ReadPdf, ReadMore, IsA
<1>10. CASE ReadField(q) \/ ReadCorrectionId(q)
  <2>1. {form[q].text, TRUE} \subseteq BOOLEAN
    BY <1>3
  <2> QED BY <1>4, <1>6, <1>10, <2>1 DEF ReadField, ReadCorrectionId, TakesText, ReadMore, IsA
<1> QED BY <1>4, <1>5, <1>7, <1>8, <1>9, <1>10 DEF ReadFile, FormFails, ReadMore, IsA

\* The facade goes on with a form that is whole, or without one.
LEMMA GoOnKeeps ==
    ASSUME StreamsInv, NEW q \in Streams, NEW pc \in Underway, request' = [request EXCEPT ![q].pc = pc],
           request[q].pc \in Underway \/ (request[q].pc = "form" /\ request[q].kind = "chat" /\ ~form[q].open),
           NEW c \in Connections, connection' = [connection EXCEPT ![q] = c],
           NEW answer \in Responses \ {"accepted"}, response' = [response EXCEPT ![q] = answer],
           UNCHANGED <<session, form, loaded, overlapped>>,
           c = "open" => pc \in {"header", "save", "relay"},
           pc = "relay" => answer = "streaming",
           pc \in {"header", "save"} => request[q].kind = "start",
           pc = "state" => request[q].kind = "extend",
           request[q].kind = "start" => request[q].pc # "relay" /\ pc # "relay",
           ~overlapped /\ request[q].kind = "start" /\ pc \in {"connect", "header", "save"} =>
                session = NoSession
    PROVE  StreamsInv'
<1> USE StreamFacts
<1> DEFINE r == [request[q] EXCEPT !.pc = pc]
<1>1. r \in StreamRow /\ r.pc = pc /\ r.kind = request[q].kind /\ request' = [request EXCEPT ![q] = r]
  BY DEF StreamRow, Underway
<1> HIDE DEF r
<1>2. form' = [form EXCEPT ![q] = form[q]]
  OBVIOUS
<1>3. FormOf(r, form[q], answer) /\ HeldBy(r, c, answer)
  BY <1>1 DEF FormOf, HeldBy, Underway
<1>4. request[q].kind = "start" => Starting(q)
  BY DEF Starting, IsA, Underway
<1>5. r.pc # "write" /\ (r.kind = "start" => r.pc # "relay")
  BY <1>1 DEF Underway
<1> QED BY <1>1, <1>2, <1>3, <1>4, <1>5, StreamMoves

\* Only the place of the request changes.
LEMMA StageKeeps ==
    ASSUME StreamsInv, NEW q \in Streams, NEW pc \in {"load", "state", "connect", "save"},
           request' = [request EXCEPT ![q].pc = pc],
           request[q].pc \in Underway \/ (request[q].pc = "form" /\ request[q].kind = "chat" /\ ~form[q].open),
           UNCHANGED <<session, form, connection, response, loaded, overlapped>>,
           connection[q] = "open" => pc = "save",
           pc = "save" => request[q].kind = "start",
           pc = "state" => request[q].kind = "extend",
           request[q].pc # "relay",
           ~overlapped /\ request[q].kind = "start" /\ pc \in {"connect", "save"} => session = NoSession
    PROVE  StreamsInv'
<1> DEFINE c == connection[q]
           answer == response[q]
<1>1. /\ c \in Connections /\ answer \in Responses \ {"accepted"}
      /\ connection' = [connection EXCEPT ![q] = c] /\ response' = [response EXCEPT ![q] = answer]
  BY StreamFacts DEF FormOf, Underway
<1>2. pc \in Underway /\ pc # "relay" /\ pc # "header"
  BY DEF Underway
<1>3. /\ c = "open" => pc \in {"header", "save", "relay"}
      /\ pc = "relay" => answer = "streaming"
      /\ pc \in {"header", "save"} => request[q].kind = "start"
      /\ request[q].kind = "start" => request[q].pc # "relay" /\ pc # "relay"
      /\ ~overlapped /\ request[q].kind = "start" /\ pc \in {"connect", "header", "save"} =>
            session = NoSession
  BY <1>2
<1>4. UNCHANGED <<session, form, loaded, overlapped>>
  OBVIOUS
<1> HIDE DEF c, answer
<1> QED BY ONLY StreamsInv, q \in Streams, request' = [request EXCEPT ![q].pc = pc],
           request[q].pc \in Underway \/ (request[q].pc = "form" /\ request[q].kind = "chat" /\ ~form[q].open),
           pc = "state" => request[q].kind = "extend",
           <1>1, <1>2, <1>3, <1>4, GoOnKeeps

LEMMA FacadeKeeps ==
    ASSUME StreamsInv, NEW q \in Streams,
           \/ FinishForm(q) \/ FinishPdf(q) \/ LoadExperience(q) \/ GetSessionState(q)
           \/ OpenPostStream(q) \/ ExtractSessionId(q) \/ Finalize(q)
    PROVE  StreamsInv'
<1> USE StreamFacts
<1>1. /\ form' = [form EXCEPT ![q] = form[q]] /\ UNCHANGED <<session, form, loaded, overlapped>>
      /\ form[q].seen <= form[q].parts
      /\ request[q].kind \in {"start", "extend", "edit"} => form[q] = NoForm
      /\ response[q] = "accepted" => request[q].pc = "over"
  BY DEF FinishForm, FinishPdf, Finish, LoadExperience, GetSessionState, OpenPostStream,
         ExtractSessionId, Finalize, FormOf
<1>0. ASSUME Goto(q, "over"), request[q].pc # "idle", UNCHANGED session, NEW c \in {"none", "closed"},
             connection' = [connection EXCEPT ![q] = c], NEW answer \in Responses,
             response' = [response EXCEPT ![q] = answer],
             answer = "accepted" => ~form[q].open /\ form[q].whole = form[q].seen
      PROVE  StreamsInv'
  BY <1>0, <1>1, EndKeeps DEF Goto
<1>2. ASSUME Fails(q), request[q].pc # "idle", UNCHANGED session, NEW c \in {"none", "closed"},
             connection' = [connection EXCEPT ![q] = c]
      PROVE  StreamsInv'
  BY <1>0, <1>2 DEF Fails, Responses
<1>3. CASE FinishForm(q)
  <2>1. /\ request[q].pc = "form" /\ request[q].kind = "chat" /\ ~form[q].open
        /\ UNCHANGED <<session, connection>> /\ connection[q] \in {"none", "closed"}
        /\ connection' = [connection EXCEPT ![q] = connection[q]]
    BY <1>3 DEF FinishForm, Finish, Reached, IsA, HeldBy, Connections
  <2>2. CASE Fails(q)
    BY <1>2, <2>1, <2>2
  <2>3. CASE Goto(q, "load") /\ UNCHANGED response
    <3>1. request' = [request EXCEPT ![q].pc = "load"]
      BY <2>3 DEF Goto
    <3> QED BY <1>1, <2>1, <2>3, <3>1, StageKeeps
  <2> QED BY <1>3, <2>2, <2>3 DEF FinishForm
<1>4. CASE FinishPdf(q)
  <2>1. /\ request[q].pc = "form" /\ ~form[q].open /\ form[q].whole = form[q].seen
        /\ UNCHANGED <<session, connection>> /\ connection[q] \in {"none", "closed"}
        /\ connection' = [connection EXCEPT ![q] = connection[q]]
    BY <1>1, <1>4 DEF FinishPdf, Finish, Reached, HeldBy, FormOf, FormRow, Connections
  <2>2. CASE Fails(q)
    BY <1>2, <2>1, <2>2
  <2>3. CASE Goto(q, "over") /\ response' = [response EXCEPT ![q] = "accepted"]
    BY <1>0, <2>1, <2>3 DEF Responses
  <2> QED BY <1>4, <2>2, <2>3 DEF FinishPdf
<1>5. CASE LoadExperience(q) \/ GetSessionState(q)
  <2>1. /\ request[q].pc \in {"load", "state"} /\ UNCHANGED <<session, connection>>
        /\ connection[q] \in {"none", "closed"}
        /\ connection' = [connection EXCEPT ![q] = connection[q]]
    BY <1>5 DEF LoadExperience, GetSessionState, Reached, HeldBy, Connections
  <2>2. CASE Fails(q)
    BY <1>2, <2>1, <2>2
  <2>3. CASE ~Fails(q)
    <3>1. PICK pc \in {"state", "connect"} :
            Goto(q, pc) /\ UNCHANGED response /\ (pc = "state" => request[q].kind = "extend")
      BY <1>5, <2>3 DEF LoadExperience, GetSessionState, IsA
    <3>2. request[q].kind = "start" => session = NoSession
      BY <1>5, <2>3 DEF LoadExperience, GetSessionState, IsA, Reached, HeldBy
    <3> QED BY <1>1, <2>1, <3>1, <3>2, StageKeeps DEF Goto, Underway
  <2> QED BY <2>2, <2>3
<1>6. CASE OpenPostStream(q)
  <2>1. request[q].pc = "connect" /\ UNCHANGED session /\ connection[q] \in {"none", "closed"}
    BY <1>6 DEF OpenPostStream, Reached, HeldBy, Connections
  <2>2. CASE Fails(q) /\ UNCHANGED connection
    <3>1. connection' = [connection EXCEPT ![q] = connection[q]]
      BY <2>2
    <3> QED BY <1>2, <2>1, <2>2, <3>1
  <2>3. ASSUME connection' = [connection EXCEPT ![q] = "open"],
               Goto(q, IF IsA(q, "start") THEN "header" ELSE "relay"),
               response' = [response EXCEPT ![q] = IF IsA(q, "start") THEN @ ELSE "streaming"]
        PROVE  StreamsInv'
    <3> DEFINE pc == IF IsA(q, "start") THEN "header" ELSE "relay"
               answer == IF IsA(q, "start") THEN response[q] ELSE "streaming"
               c == "open"
    <3>1. /\ c \in Connections
          /\ pc \in Underway /\ pc \in {"header", "relay"} /\ (pc = "header" <=> request[q].kind = "start")
          /\ answer \in Responses \ {"accepted"} /\ (pc = "relay" => answer = "streaming")
      BY <1>1, <2>1 DEF Underway, IsA, Responses, Connections
    <3>2. /\ request' = [request EXCEPT ![q].pc = pc] /\ response' = [response EXCEPT ![q] = answer]
          /\ connection' = [connection EXCEPT ![q] = c] /\ session' = session
      BY <2>1, <2>3 DEF Goto
    <3>3. ~overlapped /\ request[q].kind = "start" => session = NoSession
      BY <2>1 DEF StreamsInv, StartInv, IsA
    <3>4. request[q].pc \in Underway /\ request[q].pc # "relay"
      BY <2>1 DEF Underway
    <3> HIDE DEF pc, answer, c
    <3> QED BY <1>1, <3>1, <3>2, <3>3, <3>4, GoOnKeeps
  <2> QED BY <1>6, <2>2, <2>3 DEF OpenPostStream
<1>7. CASE ExtractSessionId(q)
  <2>1. request[q].pc = "header" /\ UNCHANGED session /\ request[q].kind = "start"
    BY <1>7 DEF ExtractSessionId, Reached, HeldBy
  <2>2. CASE Close(q) /\ Fails(q)
    BY <1>2, <2>1, <2>2 DEF Close
  <2>3. CASE Goto(q, "save") /\ UNCHANGED <<connection, response>>
    <3>1. ~overlapped => session = NoSession
      BY <2>1 DEF StreamsInv, StartInv, IsA
    <3> QED BY <1>1, <2>1, <2>3, <3>1, StageKeeps DEF Goto, Underway
  <2> QED BY <1>7, <2>2, <2>3 DEF ExtractSessionId
<1>9. CASE Finalize(q)
  <2>1. /\ request[q].pc = "relay" /\ UNCHANGED session /\ connection' = [connection EXCEPT ![q] = "closed"]
        /\ request' = [request EXCEPT ![q].pc = "over"] /\ response' = [response EXCEPT ![q] = "ended"]
    BY <1>9 DEF Finalize, Close, Goto, Reached
  <2> QED BY <1>1, <2>1, EndKeeps DEF Responses
<1> QED BY <1>3, <1>4, <1>5, <1>6, <1>7, <1>9

\* The one start under way makes its session; an edit that has the row loaded overlaps it.
LEMMA SaveSessionKeeps ==
    ASSUME StreamsInv, NEW q \in Streams, SaveSessionId(q)
    PROVE  StreamsInv'
<1> USE StreamFacts
<1>1. /\ request[q].pc = "save" /\ request[q].kind = "start" /\ form[q] = NoForm
      /\ form' = [form EXCEPT ![q] = form[q]] /\ UNCHANGED <<form, loaded>>
  BY DEF SaveSessionId, Reached, HeldBy, FormOf
<1>2. CASE Close(q) /\ Fails(q) /\ UNCHANGED <<session, overlapped>>
  BY <1>1, <1>2, EndKeeps DEF Close, Fails, Goto, Responses, FormOf
<1>3. CASE /\ session' = q /\ Goto(q, "relay") /\ response' = [response EXCEPT ![q] = "streaming"]
           /\ overlapped' = (overlapped \/ EditPending) /\ UNCHANGED connection
  <2> DEFINE r == [request[q] EXCEPT !.pc = "relay"]
             answer == "streaming"
  <2>1. /\ r \in StreamRow /\ r.pc = "relay" /\ r.kind = "start"
        /\ request' = [request EXCEPT ![q] = r]
        /\ answer \in Responses /\ answer = "streaming"
        /\ response' = [response EXCEPT ![q] = answer]
        /\ connection' = [connection EXCEPT ![q] = connection[q]]
    BY <1>1, <1>3 DEF StreamRow, Goto, Responses
  <2> HIDE DEF r, answer
  <2>2. FormOf(r, form[q], answer) /\ HeldBy(r, connection[q], answer)
    BY <1>1, <2>1 DEF FormOf, HeldBy, Underway
  <2>3. overlapped' \in BOOLEAN /\ (overlapped => overlapped') /\ (~overlapped' => ~EditPending)
    BY <1>3 DEF EditPending
  <2> QED BY <1>1, <1>3, <2>1, <2>2, <2>3, StreamMoves
<1> QED BY <1>2, <1>3 DEF SaveSessionId

\* An edit loads the session, and writes back the one it has loaded.
LEMMA EditKeeps ==
    ASSUME StreamsInv, NEW q \in Streams, LoadForEdit(q) \/ SaveExperience(q)
    PROVE  StreamsInv'
<1> USE StreamFacts
<1>1. PICK r \in StreamRow, l \in Streams \cup {NoSession} :
        /\ request' = [request EXCEPT ![q] = r] /\ loaded' = [loaded EXCEPT ![q] = l]
        /\ r.kind \in {"edit", request[q].kind} /\ r.pc \in {"write", "over"}
        /\ r.kind = "edit" => form[q] = NoForm
        /\ r.pc = "write" => l = session /\ r.kind = "edit"
        /\ session' \in {session, loaded[q]}
        /\ session' # session => request[q].pc = "write"
        /\ request[q].pc \in {"idle", "write"}
        /\ r.pc = "write" => request[q].pc = "idle"
        /\ UNCHANGED <<form, connection, response, overlapped>>
  <2>1. CASE LoadForEdit(q)
    <3> DEFINE r == [pc |-> "write", kind |-> "edit"]
    <3>1. r \in StreamRow /\ r.pc = "write" /\ r.kind = "edit"
      BY DEF StreamRow
    <3>2. /\ request' = [request EXCEPT ![q] = r] /\ loaded' = [loaded EXCEPT ![q] = session]
          /\ request[q].pc = "idle" /\ form[q] = NoForm
          /\ UNCHANGED <<session, form, connection, response, overlapped>>
      BY <2>1 DEF LoadForEdit, Reached, FormOf
    <3> HIDE DEF r
    <3> QED BY <3>1, <3>2
  <2>2. CASE SaveExperience(q)
    <3> DEFINE r == [request[q] EXCEPT !.pc = "over"]
    <3>1. r \in StreamRow /\ r.pc = "over" /\ r.kind = request[q].kind
      BY DEF StreamRow
    <3>2. /\ request' = [request EXCEPT ![q] = r] /\ loaded' = [loaded EXCEPT ![q] = NoSession]
          /\ request[q].pc = "write" /\ session' \in {loaded[q], session}
          /\ request[q].kind = "edit" => form[q] = NoForm
          /\ UNCHANGED <<form, connection, response, overlapped>>
      BY <2>2 DEF SaveExperience, Reached, Goto, FormOf
    <3> HIDE DEF r
    <3> QED BY <3>1, <3>2
  <2> QED BY <2>1, <2>2
<1>2. \A z \in Streams : /\ request'[z] = IF z = q THEN r ELSE request[z]
                         /\ loaded'[z] = IF z = q THEN l ELSE loaded[z]
  BY <1>1
<1>3. StreamsTypeOK'
  BY <1>1 DEF StreamsTypeOK, StreamRow, FormRow, Connections, Responses
<1>4. FormOf(r, form[q], response[q]) /\ HeldBy(r, connection[q], response[q])
  BY <1>1 DEF FormOf, HeldBy, Underway
<1>5. (\A z \in Streams : FormOf(request[z], form[z], response[z])
                         /\ HeldBy(request[z], connection[z], response[z]))'
  <2>1. \A z \in Streams : FormOf(request'[z], form'[z], response'[z])
                           /\ HeldBy(request'[z], connection'[z], response'[z])
    BY <1>1, <1>2, <1>4
  <2> QED BY <2>1 DEF FormOf, HeldBy
<1>6. StartInv'
  <2> SUFFICES ASSUME ~overlapped' PROVE StartInv'
    BY DEF StartInv
  <2>1. StartInv /\ ~overlapped /\ session' = session
    BY <1>1 DEF StreamsInv, StartInv
  <2>2. \A z \in Streams : Starting(z)' => Starting(z)
    BY <1>1, <1>2 DEF Starting, IsA
  <2> QED BY <1>1, <1>2, <2>1, <2>2 DEF StartInv, IsA
<1> QED BY <1>3, <1>5, <1>6 DEF StreamsInv

LEMMA StreamsInvariance == StreamsSpec => []StreamsInv
<1>1. StreamsInv /\ StreamsNext => StreamsInv'
  BY BeginKeeps, ParserKeeps, FacadeKeeps, SaveSessionKeeps, EditKeeps DEF StreamsNext, StreamStep
<1>2. StreamsInv /\ UNCHANGED streamVars => StreamsInv'
  BY DEF streamVars, StreamsInv, StreamsTypeOK, StartInv, Starting, IsA, FormOf, HeldBy
<1> QED BY <1>1, <1>2, StreamsInvInit, PTL DEF StreamsSpec

\* Requests, forms, connections and answers are well formed; no form counts more files
\* than it has parts.
THEOREM StreamsAreWellFormed == StreamsSpec => []StreamsTypeOK
<1>1. StreamsInv => StreamsTypeOK
  BY DEF StreamsInv
<1> QED BY <1>1, StreamsInvariance, PTL

\* A form that is passed on, or a PDF that is accepted, is whole, however the events of
\* its files, limits and errors interleave and however many parts it has.
THEOREM FormsPassedOnAreWhole == StreamsSpec => []PassedFormIsWhole
<1>1. StreamsInv => PassedFormIsWhole
  BY StreamFacts DEF PassedFormIsWhole, FormOf, Underway
<1> QED BY <1>1, StreamsInvariance, PTL

\* A stream of the AI server is open only for a request that holds it, and a start that is
\* relayed is the session, for any number of requests and edits, unless two starts, or an
\* edit and a start, have overlapped.
THEOREM OpenStreamsAreHeld == StreamsSpec => []StreamsAreHeld
<1>1. StreamsInv => StreamsAreHeld
  BY StreamFacts DEF StreamsAreHeld, HeldBy, StreamsInv, StartInv, IsA
<1> QED BY <1>1, StreamsInvariance, PTL

-------------------------------------------------------------------------------
(* Insights                                                                *)

FullText == [title : Titles, description : Descriptions]
EditRow ==
    [pc : {"idle", "embed", "count", "insert", "load", "save"}, log : Logs \cup {Unset},
     asks : Text, vector : Vectors, seen : Text]

\* A creation carries a whole text and its vector; an update that nobody has overtaken
\* carries the vector of the text it will leave behind.
EditOf(e) ==
    /\ e.pc \in {"embed", "count", "insert"} /\ e.log = Unset =>
            e.asks \in FullText /\ e.vector = <<e.asks.title, e.asks.description>>
    /\ e.pc \in {"count", "insert"} => e.log = Unset
    /\ e.pc \in {"load", "save"} => e.log # Unset
    /\ e.log # Unset => e.log \in issued
    /\ e.pc = "save" => e.seen \in FullText
    /\ ~collisions /\ e.log \in Existing /\ e.pc \in {"embed", "load"} =>
            e.vector = VectorOf(e.asks, log[e.log].text)
    /\ ~collisions /\ e.log \in Existing /\ e.pc = "save" =>
            e.seen = log[e.log].text /\ e.vector = VectorOf(e.asks, e.seen)

InsightsInv ==
    /\ InsightsTypeOK
    /\ \A l \in Existing : l \in issued /\ log[l].text \in FullText
    /\ \A q \in Edits : EditOf(edit[q])
    /\ VectorOfItsText

\* VectorOf is the pair of the texts left behind, or nothing when they stay.
LEMMA VectorMeaning ==
    ASSUME NEW asks \in Text, NEW was \in FullText
    PROVE  LET title == IF asks.title = Unset THEN was.title ELSE asks.title
               description == IF asks.description = Unset THEN was.description ELSE asks.description
           IN VectorOf(asks, was) = IF title # was.title \/ description # was.description
                                    THEN <<title, description>> ELSE Unset
BY DEF VectorOf, Text, FullText

LEMMA InsightFacts ==
    ASSUME InsightsInv, NEW q \in Edits
    PROVE  /\ edit[q] \in EditRow /\ EditOf(edit[q])
           /\ log \in [Logs -> [text : Text, embedding : Vectors]]
           /\ issued \subseteq Logs /\ collisions \in BOOLEAN
BY DEF InsightsInv, InsightsTypeOK, EditRow

LEMMA NoEditRow == NoEdit \in EditRow /\ NoEdit.pc = "idle" /\ NoEdit.log = Unset
BY DEF NoEdit, EditRow, Text, NoText, Vectors

LEMMA FullTexts == NoText \notin FullText /\ FullText \subseteq Text
BY InsightConstants DEF NoText, FullText, Text

LEMMA InsightsInvInit == InsightsInit => InsightsInv
<1> SUFFICES ASSUME InsightsInit PROVE InsightsInv
  OBVIOUS
<1>1. NoLog \in [text : Text, embedding : Vectors]
  BY DEF NoLog, NoText, Text, Vectors
<1>2. InsightsTypeOK
  BY <1>1, NoEditRow DEF InsightsInit, InsightsTypeOK, EditRow
<1>3. Existing = {}
  BY DEF InsightsInit, Existing
<1>4. \A q \in Edits : EditOf(edit[q])
  BY <1>3, NoEditRow DEF InsightsInit, EditOf
<1> QED BY <1>2, <1>3, <1>4 DEF InsightsInv, VectorOfItsText

\* A request goes on, and the table stays.
LEMMA EditMoves ==
    ASSUME InsightsInv, NEW q \in Edits, NEW e \in EditRow, edit' = [edit EXCEPT ![q] = e], EditOf(e),
           UNCHANGED <<log, issued, collisions>>
    PROVE  InsightsInv'
<1>1. \A p \in Edits : edit'[p] = IF p = q THEN e ELSE edit[p]
  BY DEF InsightsInv, InsightsTypeOK
<1>2. InsightsTypeOK'
  BY DEF InsightsInv, InsightsTypeOK, EditRow
<1>3. ASSUME NEW p \in Edits, NEW d, d = edit'[p] PROVE EditOf(d)'
  <2>1. EditOf(d)
    BY <1>1, <1>3 DEF InsightsInv
  <2> QED BY <2>1 DEF EditOf, Existing
<1>4. /\ (\A l \in Existing : l \in issued /\ log[l].text \in FullText)'
      /\ VectorOfItsText'
  BY DEF InsightsInv, Existing, VectorOfItsText
<1> QED BY <1>2, <1>3, <1>4 DEF InsightsInv

\* A request writes one log and is over.
LEMMA LogMoves ==
    ASSUME InsightsInv, NEW q \in Edits, Quit(q), NEW l \in Logs,
           NEW text \in FullText, NEW vector \in Vectors,
           log' = [log EXCEPT ![l] = [text |-> text, embedding |-> vector]],
           issued' = issued \cup {l}, collisions' \in BOOLEAN, collisions => collisions',
           ~collisions' => vector = <<text.title, text.description>>,
           ~collisions' => \A p \in Edits \ {q} : edit[p].pc # "idle" => edit[p].log # l
    PROVE  InsightsInv'
<1>1. \A p \in Edits : edit'[p] = IF p = q THEN NoEdit ELSE edit[p]
  BY DEF Quit, InsightsInv, InsightsTypeOK
<1>2. \A k \in Logs : log'[k] = IF k = l THEN [text |-> text, embedding |-> vector] ELSE log[k]
  BY DEF InsightsInv, InsightsTypeOK
<1>3. InsightsTypeOK'
  <2>1. [text |-> text, embedding |-> vector] \in [text : Text, embedding : Vectors]
    BY FullTexts
  <2>2. (log \in [Logs -> [text : Text, embedding : Vectors]])'
    BY <2>1 DEF InsightsInv, InsightsTypeOK
  <2> QED BY <2>2, NoEditRow DEF Quit, InsightsInv, InsightsTypeOK, EditRow
<1>4. \A k \in Logs : k \in Existing' => k = l \/ k \in Existing
  BY <1>2 DEF Existing
<1>5. (\A k \in Existing : k \in issued /\ log[k].text \in FullText)'
  BY <1>2, <1>4 DEF InsightsInv, Existing
<1>6. ASSUME NEW p \in Edits, NEW d, d = edit'[p] PROVE EditOf(d)'
  <2>1. CASE p = q
    BY <1>1, <1>6, <2>1, NoEditRow, InsightConstants DEF EditOf, Existing
  <2>2. CASE p # q
    <3>1. d = edit[p] /\ EditOf(d) /\ d \in EditRow
      BY <1>1, <1>6, <2>2 DEF InsightsInv, InsightsTypeOK, EditRow
    <3>2. ~collisions' /\ d.pc # "idle" => d.log # l /\ ~collisions
      BY <2>2, <3>1
    <3>3. ~collisions' /\ d.pc # "idle" /\ d.log \in Existing' => d.log \in Existing /\ log'[d.log] = log[d.log]
      BY <1>2, <3>2 DEF Existing
    <3> QED BY <3>1, <3>2, <3>3 DEF EditOf
  <2> QED BY <2>1, <2>2
<1>7. VectorOfItsText'
  BY <1>2, <1>4 DEF InsightsInv, VectorOfItsText, Existing
<1> QED BY <1>3, <1>5, <1>6, <1>7 DEF InsightsInv

LEMMA DeleteKeeps == ASSUME InsightsInv, NEW l \in Logs, DeleteInsight(l) PROVE InsightsInv'
<1>1. /\ \A k \in Logs : log'[k] = IF k = l THEN NoLog ELSE log[k]
      /\ UNCHANGED <<issued, edit, collisions>>
  BY DEF DeleteInsight, InsightsInv, InsightsTypeOK
<1>2. \A k \in Logs : k \in Existing' <=> k \in Existing /\ k # l
  BY <1>1 DEF Existing
<1>3. InsightsTypeOK'
  <2>1. NoLog \in [text : Text, embedding : Vectors]
    BY DEF NoLog, NoText, Text, Vectors
  <2> QED BY <1>1, <2>1 DEF DeleteInsight, InsightsInv, InsightsTypeOK
<1>4. ASSUME NEW p \in Edits, NEW d, d = edit[p] PROVE EditOf(d)'
  <2>1. EditOf(d) /\ d \in EditRow
    BY <1>4 DEF InsightsInv, InsightsTypeOK, EditRow
  <2>2. d.log \in Existing' => d.log \in Existing /\ log'[d.log] = log[d.log]
    BY <1>1, <1>2 DEF Existing
  <2> QED BY <1>1, <2>1, <2>2 DEF EditOf
<1>5. /\ (\A k \in Existing : k \in issued /\ log[k].text \in FullText)'
      /\ VectorOfItsText'
  BY <1>1, <1>2 DEF InsightsInv, VectorOfItsText, Existing
<1> QED BY <1>1, <1>3, <1>4, <1>5 DEF InsightsInv

LEMMA CreateKeeps == ASSUME InsightsInv, NEW q \in Edits, CreateInsight(q) PROVE InsightsInv'
<1>1. PICK title \in Titles, description \in Descriptions :
        edit' = [edit EXCEPT ![q] = [NoEdit EXCEPT !.pc = "embed",
                    !.asks = [title |-> title, description |-> description],
                    !.vector = <<title, description>>]]
  BY DEF CreateInsight
<1> DEFINE e == [NoEdit EXCEPT !.pc = "embed", !.asks = [title |-> title, description |-> description],
                               !.vector = <<title, description>>]
<1>2. /\ e.pc = "embed" /\ e.log = Unset /\ e.asks = [title |-> title, description |-> description]
      /\ e.vector = <<title, description>> /\ e.seen = NoText
  BY DEF NoEdit
<1>3. e \in EditRow
  BY DEF EditRow, NoEdit, NoText, Text, Vectors
<1>4. edit' = [edit EXCEPT ![q] = e] /\ UNCHANGED <<log, issued, collisions>>
  BY <1>1 DEF CreateInsight
<1> HIDE DEF e
<1>5. EditOf(e)
  BY <1>2, InsightConstants DEF EditOf, FullText, Existing
<1> QED BY <1>3, <1>4, <1>5, EditMoves

LEMMA UpdateKeeps == ASSUME InsightsInv, NEW q \in Edits, UpdateInsight(q) PROVE InsightsInv'
<1>1. PICK l \in Existing, asks \in Text :
        edit' = [edit EXCEPT ![q] = [NoEdit EXCEPT !.pc = "embed", !.log = l, !.asks = asks,
                                                   !.vector = VectorOf(asks, log[l].text)]]
  BY DEF UpdateInsight
<1> DEFINE e == [NoEdit EXCEPT !.pc = "embed", !.log = l, !.asks = asks,
                               !.vector = VectorOf(asks, log[l].text)]
<1>2. l \in Logs /\ l \in issued /\ log[l].text \in FullText /\ l # Unset
  BY InsightConstants DEF InsightsInv, Existing
<1>3. VectorOf(asks, log[l].text) \in Vectors
  BY <1>2, VectorMeaning DEF Vectors, Text, FullText
<1>4. /\ e.pc = "embed" /\ e.log = l /\ e.asks = asks /\ e.seen = NoText
      /\ e.vector = VectorOf(asks, log[l].text)
  BY DEF NoEdit
<1>5. e \in EditRow
  BY <1>2, <1>3 DEF EditRow, NoEdit, NoText, Text
<1>6. edit' = [edit EXCEPT ![q] = e] /\ UNCHANGED <<log, issued, collisions>>
  BY <1>1 DEF UpdateInsight
<1> HIDE DEF e
<1>7. EditOf(e)
  BY <1>2, <1>4 DEF EditOf
<1> QED BY <1>5, <1>6, <1>7, EditMoves

LEMMA EmbedKeeps == ASSUME InsightsInv, NEW q \in Edits, GetEmbedding(q) PROVE InsightsInv'
<1>1. edit[q] \in EditRow /\ EditOf(edit[q]) /\ edit[q].pc = "embed"
      /\ UNCHANGED <<log, issued, collisions>>
  BY InsightFacts DEF GetEmbedding, Stage
<1>2. CASE Quit(q)
  BY <1>1, <1>2, EditMoves, NoEditRow, InsightConstants DEF Quit, EditOf, Existing
<1>3. CASE edit' = [edit EXCEPT ![q].pc = IF edit[q].log = Unset THEN "count" ELSE "load"]
  <2> DEFINE e == [edit[q] EXCEPT !.pc = IF edit[q].log = Unset THEN "count" ELSE "load"]
  <2>1. /\ e \in EditRow /\ e.pc = (IF edit[q].log = Unset THEN "count" ELSE "load")
        /\ e.log = edit[q].log /\ e.asks = edit[q].asks /\ e.vector = edit[q].vector
    BY <1>1 DEF EditRow
  <2>2. edit' = [edit EXCEPT ![q] = e]
    BY <1>3
  <2> HIDE DEF e
  <2>3. EditOf(e)
    BY <1>1, <2>1 DEF EditOf
  <2> QED BY <1>1, <2>1, <2>2, <2>3, EditMoves
<1> QED BY <1>2, <1>3 DEF GetEmbedding

LEMMA CountKeeps == ASSUME InsightsInv, NEW q \in Edits, CountAgain(q) PROVE InsightsInv'
<1>1. edit[q] \in EditRow /\ EditOf(edit[q]) /\ edit[q].pc = "count"
      /\ UNCHANGED <<log, issued, collisions>>
  BY InsightFacts DEF CountAgain, Stage
<1>2. CASE Quit(q)
  BY <1>1, <1>2, EditMoves, NoEditRow, InsightConstants DEF Quit, EditOf, Existing
<1>3. CASE ~Quit(q)
  <2> DEFINE e == [edit[q] EXCEPT !.pc = "insert"]
  <2>1. /\ e \in EditRow /\ e.pc = "insert"
        /\ e.log = edit[q].log /\ e.asks = edit[q].asks /\ e.vector = edit[q].vector
    BY <1>1 DEF EditRow
  <2>2. edit' = [edit EXCEPT ![q] = e]
    BY <1>3 DEF CountAgain, Quit
  <2> HIDE DEF e
  <2>3. EditOf(e)
    BY <1>1, <2>1, InsightConstants DEF EditOf, Existing
  <2> QED BY <1>1, <2>1, <2>2, <2>3, EditMoves
<1> QED BY <1>2, <1>3

LEMMA LoadKeeps == ASSUME InsightsInv, NEW q \in Edits, LoadForUpdate(q) PROVE InsightsInv'
<1>1. edit[q] \in EditRow /\ EditOf(edit[q]) /\ edit[q].pc = "load"
      /\ UNCHANGED <<log, issued, collisions>>
  BY InsightFacts DEF LoadForUpdate, Stage
<1>2. CASE Quit(q)
  BY <1>1, <1>2, EditMoves, NoEditRow, InsightConstants DEF Quit, EditOf, Existing
<1>3. CASE ~Quit(q)
  <2>1. /\ edit[q].log \in Existing
        /\ edit' = [edit EXCEPT ![q] = [edit[q] EXCEPT !.pc = "save", !.seen = log[edit[q].log].text]]
    BY <1>3 DEF LoadForUpdate, Quit
  <2> DEFINE e == [edit[q] EXCEPT !.pc = "save", !.seen = log[edit[q].log].text]
  <2>2. log[edit[q].log].text \in FullText
    BY <2>1 DEF InsightsInv
  <2>3. /\ e \in EditRow /\ e.pc = "save" /\ e.seen = log[edit[q].log].text
        /\ e.log = edit[q].log /\ e.asks = edit[q].asks /\ e.vector = edit[q].vector
    BY <1>1, <2>2, FullTexts DEF EditRow
  <2>4. edit' = [edit EXCEPT ![q] = e]
    BY <2>1
  <2> HIDE DEF e
  <2>5. EditOf(e)
    BY <1>1, <2>1, <2>2, <2>3 DEF EditOf
  <2> QED BY <1>1, <2>3, <2>4, <2>5, EditMoves
<1> QED BY <1>2, <1>3

LEMMA InsertKeeps == ASSUME InsightsInv, NEW q \in Edits, InsertInsight(q) PROVE InsightsInv'
<1>1. PICK l \in Logs \ issued :
        /\ issued' = issued \cup {l}
        /\ log' = [log EXCEPT ![l] = [text |-> edit[q].asks, embedding |-> edit[q].vector]]
  BY DEF InsertInsight
<1>2. edit[q] \in EditRow /\ EditOf(edit[q]) /\ edit[q].pc = "insert" /\ Quit(q)
  BY InsightFacts DEF InsertInsight, Stage
<1>3. /\ edit[q].asks \in FullText /\ edit[q].vector \in Vectors
      /\ edit[q].vector = <<edit[q].asks.title, edit[q].asks.description>>
  BY <1>2 DEF EditOf, EditRow
<1>4. \A p \in Edits : edit[p].log # l
  BY <1>1, InsightConstants DEF InsightsInv, EditOf
<1>5. collisions' \in BOOLEAN /\ (collisions => collisions')
  BY <1>2, InsightFacts DEF InsertInsight
<1> QED BY <1>1, <1>2, <1>3, <1>4, <1>5, LogMoves

LEMMA SaveInsightKeeps == ASSUME InsightsInv, NEW q \in Edits, SaveInsight(q) PROVE InsightsInv'
<1> DEFINE e == edit[q]
           l == edit[q].log
           title == IF e.asks.title = Unset THEN e.seen.title ELSE e.asks.title
           description == IF e.asks.description = Unset THEN e.seen.description
                          ELSE e.asks.description
           text == [title |-> title, description |-> description]
           vector == IF VectorOf(e.asks, e.seen) # Unset /\ e.vector # Unset
                     THEN e.vector ELSE log[l].embedding
<1>1. e \in EditRow /\ EditOf(e) /\ e.pc = "save" /\ Quit(q)
  BY InsightFacts DEF SaveInsight, Stage
<1>2. l \in Logs /\ l \in issued /\ e.seen \in FullText /\ e.asks \in Text
  BY <1>1 DEF EditOf, EditRow
<1>3. title \in Titles /\ description \in Descriptions
  BY <1>2 DEF Text, FullText
<1>4. text \in FullText /\ vector \in Vectors
  BY <1>1, <1>2, <1>3, InsightFacts DEF FullText, EditRow
<1>5. log' = [log EXCEPT ![l] = [text |-> text, embedding |-> vector]]
  <2> DEFINE row == [text |-> text, embedding |-> vector]
  <2>1. log \in [Logs -> [text : Text, embedding : Vectors]]
    BY InsightFacts
  <2>2. log' = [log EXCEPT ![l].text.title = title, ![l].text.description = description,
                           ![l].embedding = vector]
    BY DEF SaveInsight
  <2> HIDE DEF title, description, vector, l
  <2>3. log'[l] = row
    BY <1>2, <2>1, <2>2 DEF Text
  <2>4. (\A k \in Logs \ {l} : log'[k] = log[k]) /\ log' = [k \in Logs |-> log'[k]]
    BY <1>2, <2>1, <2>2
  <2> HIDE DEF row
  <2>5. log' = [log EXCEPT ![l] = row]
    BY <1>2, <2>1, <2>3, <2>4
  <2> QED BY <2>5 DEF row
<1>6. issued' = issued \cup {l}
  BY <1>2 DEF SaveInsight
<1>7. /\ collisions' \in BOOLEAN /\ (collisions => collisions')
      /\ ~collisions' => ~Collides(q) /\ l \in Existing
  BY DEF SaveInsight
<1>8. ~collisions' => vector = <<text.title, text.description>>
  <2> SUFFICES ASSUME ~collisions' PROVE vector = <<title, description>>
    OBVIOUS
  <2>1. l \in Existing /\ ~collisions
    BY <1>7
  <2>2. e.seen = log[l].text /\ e.vector = VectorOf(e.asks, e.seen)
    BY <1>1, <2>1 DEF EditOf
  <2>3. log[l].embedding = <<log[l].text.title, log[l].text.description>>
    BY <2>1 DEF InsightsInv, VectorOfItsText
  <2>4. VectorOf(e.asks, e.seen) = IF title # e.seen.title \/ description # e.seen.description
                                   THEN <<title, description>> ELSE Unset
    BY <1>2, VectorMeaning
  <2>5. <<title, description>> # Unset
    BY <1>3, InsightConstants
  <2> QED BY <2>2, <2>3, <2>4, <2>5
<1>9. ~collisions' => \A p \in Edits \ {q} : edit[p].pc # "idle" => edit[p].log # l
  BY <1>2, <1>7, InsightConstants DEF Collides, Stage
<1> HIDE DEF text, vector, l
<1> QED BY <1>1, <1>2, <1>4, <1>5, <1>6, <1>7, <1>8, <1>9, LogMoves

LEMMA InsightsInvariance == InsightsSpec => []InsightsInv
<1>1. InsightsInv /\ InsightsNext => InsightsInv'
  BY CreateKeeps, UpdateKeeps, EmbedKeeps, CountKeeps, InsertKeeps, LoadKeeps, SaveInsightKeeps,
     DeleteKeeps DEF InsightsNext, InsightStep
<1>2. InsightsInv /\ UNCHANGED insightVars => InsightsInv'
  BY DEF insightVars, InsightsInv, InsightsTypeOK, EditOf, Existing, VectorOfItsText
<1> QED BY <1>1, <1>2, InsightsInvInit, PTL DEF InsightsSpec

\* Logs and requests are well formed, with texts and vectors of the user's own words.
THEOREM InsightsAreWellFormed == InsightsSpec => []InsightsTypeOK
<1>1. InsightsInv => InsightsTypeOK
  BY DEF InsightsInv
<1> QED BY <1>1, InsightsInvariance, PTL

\* The vector of a log is the one of its text, for any number of creations, updates and
\* deletions, when no two requests for one log overlapped: it is computed before the
\* transaction that reads the row again.
THEOREM VectorsFollowTexts == InsightsSpec => []VectorOfItsText
<1>1. InsightsInv => VectorOfItsText
  BY DEF InsightsInv
<1> QED BY <1>1, InsightsInvariance, PTL

-------------------------------------------------------------------------------
(* What the user is told                                                   *)

Answers ==
    [what : {"none", "balance", "expiring"}, at : 0..MaxTime,
     rows : SUBSET Tickets, among : SUBSET Tickets]

\* A ticket there was at the answer is among its rows, or has left them since: the end of
\* a ticket is fixed, and a ticket that was spent or has lapsed does not come back.
ToldOf(t) ==
    /\ status[t] # "NONE"
    /\ shown.what = "balance" => t \in shown.rows \/ status[t] # "AVAILABLE"
    /\ shown.what = "expiring" =>
            \/ t \in shown.rows
            \/ status[t] # "AVAILABLE"
            \/ ~(ExpiresAt(t) \in (shown.at + 1)..MaxTime /\ ExpiresAt(t) <= shown.at + Days)

ToldInv ==
    /\ LedgerInv
    /\ shown \in Answers
    /\ \A t \in shown.among : ToldOf(t)

LEMMA ToldInvInit == ReadsInit => ToldInv
BY LedgerInvInit, LedgerConstants DEF ReadsInit, NothingShown, ToldInv, Answers

\* The inventory goes on while the answer stays.
LEMMA InventoryKeepsTold ==
    ASSUME ToldInv, [LedgerNext]_ledgerVars, UNCHANGED shown
    PROVE  ToldInv'
<1>1. LedgerInv'
  BY LedgerInvStep DEF ToldInv
<1>2. shown' \in Answers
  BY DEF ToldInv
<1>3. ASSUME NEW t \in shown.among PROVE ToldOf(t)'
  <2>1. t \in Tickets /\ ToldOf(t)
    BY DEF ToldInv, Answers
  <2>2. /\ status[t] \in {"USED", "EXPIRED"} => status'[t] = status[t]
        /\ source'[t] = source[t] /\ status'[t] # "NONE"
    BY <2>1, SpentStep DEF ToldInv, ToldOf
  <2>3. status[t] \in TicketStatus
    BY <2>1 DEF ToldInv, LedgerInv, LedgerTypeOK
  <2>4. status[t] # "AVAILABLE" => status'[t] # "AVAILABLE"
    BY <2>1, <2>2, <2>3 DEF TicketStatus, ToldOf
  <2> QED BY <2>1, <2>2, <2>4 DEF ToldOf, ExpiresAt
<1> QED BY <1>1, <1>2, <1>3 DEF ToldInv

\* An answer is taken at one moment.
LEMMA AnswerKeepsTold == ASSUME ToldInv, GetBalance \/ GetExpiring PROVE ToldInv'
<1>1. PICK what \in {"balance", "expiring"} :
        /\ Show(what, IF what = "balance" THEN CountAvailable ELSE FindExpiring)
  BY DEF GetBalance, GetExpiring
<1> DEFINE rows == IF what = "balance" THEN CountAvailable ELSE FindExpiring
<1>2. /\ shown' = [what |-> what, at |-> now, rows |-> rows, among |-> Issued]
      /\ UNCHANGED ledgerVars /\ UNCHANGED <<source, status, held, passed, items, charged, now>>
  BY <1>1 DEF Show, ledgerVars
<1>3. rows \in SUBSET Tickets /\ Issued \in SUBSET Tickets /\ now \in 0..MaxTime
  BY DEF CountAvailable, FindExpiring, Issued, ToldInv, LedgerInv, LedgerTypeOK
<1>4. LedgerInv'
  BY <1>2, LedgerInvStep DEF ToldInv
<1>5. shown' \in Answers
  BY <1>2, <1>3 DEF Answers
<1>6. /\ shown'.what = what /\ shown'.at = now /\ shown'.rows = rows /\ shown'.among = Issued
      /\ source' = source /\ status' = status
  BY <1>2
<1>7. ASSUME NEW t \in Tickets, status[t] # "NONE", NEW at, at = now, NEW until, until = ExpiresAt(t)
      PROVE  /\ what = "balance" => t \in rows \/ status[t] # "AVAILABLE"
             /\ what = "expiring" =>
                    t \in rows \/ status[t] # "AVAILABLE" \/ ~(until \in (at + 1)..MaxTime /\ until <= at + Days)
  <2>1. until \in (at + 1)..MaxTime => until # Never /\ until > now
    BY <1>3, <1>7, LedgerConstants DEF Never
  <2>2. what = "expiring" /\ status[t] = "AVAILABLE" /\ until \in (at + 1)..MaxTime /\ until <= at + Days
        => t \in FindExpiring
    BY <1>7, <2>1 DEF FindExpiring
  <2>3. what = "balance" /\ status[t] = "AVAILABLE" => t \in CountAvailable
    BY <1>7 DEF CountAvailable
  <2> QED BY <2>2, <2>3
<1> HIDE DEF rows
<1>8. ASSUME NEW t \in Issued PROVE ToldOf(t)'
  <2>1. t \in Tickets /\ status[t] # "NONE" /\ ExpiresAt(t)' = ExpiresAt(t)
    BY <1>6 DEF Issued, ExpiresAt
  <2> QED BY <1>6, <1>7, <2>1 DEF ToldOf
<1> QED BY <1>4, <1>5, <1>6, <1>8 DEF ToldInv

LEMMA ToldInvariance == ReadsSpec => []ToldInv
<1>1. ToldInv /\ ReadsNext => ToldInv'
  BY InventoryKeepsTold, AnswerKeepsTold DEF ReadsNext
<1>2. ToldInv /\ UNCHANGED readVars => ToldInv'
  BY InventoryKeepsTold DEF readVars
<1> QED BY <1>1, <1>2, ToldInvInit, PTL DEF ReadsSpec

\* The inventory and the last answer are well formed.
THEOREM ReadsAreWellFormed == ReadsSpec => []ReadsTypeOK
<1>1. ToldInv => ReadsTypeOK
  BY DEF ToldInv, LedgerInv, ReadsTypeOK, Answers
<1> QED BY <1>1, ToldInvariance, PTL

LEMMA ToldIsAnnounced == ASSUME ToldInv PROVE ToldBeforeLapse
<1>1. ASSUME shown.what = "expiring", NEW t \in shown.among, status[t] = "AVAILABLE",
             ExpiresAt(t) \in (shown.at + 1)..now, now <= shown.at + Days
      PROVE  t \in shown.rows
  <2>1. shown.at \in 0..MaxTime /\ now \in 0..MaxTime
    BY DEF ToldInv, Answers, LedgerInv, LedgerTypeOK
  <2>2. ExpiresAt(t) \in (shown.at + 1)..MaxTime /\ ExpiresAt(t) <= shown.at + Days
    BY <1>1, <2>1, LedgerConstants, ReadConstants
  <2> QED BY <1>1, <2>2 DEF ToldInv, ToldOf
<1>2. shown.what = "balance" => Consumable \cap shown.among \subseteq shown.rows
  BY DEF ToldInv, ToldOf, Consumable
<1> QED BY <1>1, <1>2 DEF ToldBeforeLapse

\* The user is told of every ticket before it lapses and of every ticket he can spend,
\* for any number of tickets, creations, grants and revocations after the answer.
THEOREM TicketsAreAnnounced == ReadsSpec => []ToldBeforeLapse
BY ToldIsAnnounced, ToldInvariance, PTL

-------------------------------------------------------------------------------
(* Activity tags: nothing locks what an update compares with, but while    *)
(* nobody else saves or deletes its log, only tags that were deleted leave *)
(* the mappings it has read.                                               *)

TagSteps == {"idle", "lookup", "insert", "create", "load", "read", "remove", "add",
             "unmap", "delete", "unlink", "drop", "ids", "search", "similar", "names", "listed"}
LogSteps == {"load", "read", "remove", "add", "unlink", "drop"}
ListSteps == {"ids", "search", "names", "listed"}
TagRow ==
    [step : TagSteps, on : TaggedLogs \cup Tags \cup {NoTagged}, name : TagNames \cup {NoName},
     wanted : SUBSET Tags, seen : SUBSET Tags, gone : SUBSET (TaggedLogs \X Tags),
     logs : SUBSET TaggedLogs, names : SUBSET (TaggedLogs \X Tags)]

\* What an update has read of an undisturbed log is on it still, but for deleted tags.
ReadOf(r) ==
    \A t \in Tags : /\ copies[r.on][t] > 0 => t \in r.seen
                    /\ t \in r.seen /\ copies[r.on][t] = 0 => t \notin TagRows

\* A request names things that exist or existed, and deletes mappings of its log or tag;
\* an update, all those of its log that are not wanted.
RequestOf(r) ==
    /\ r.step \in LogSteps => r.on \in TaggedLogs /\ r.on \in usedIds
    /\ r.step \in {"unmap", "delete", "ids"} => r.on \in Tags
    /\ r.step \in {"lookup", "insert"} => r.name \in TagNames
    /\ r.step = "similar" => r.on = NoTagged
    /\ r.seen \subseteq usedIds /\ r.wanted \subseteq usedIds
    /\ r.step \in {"remove", "add"} /\ r.on \notin disturbed => ReadOf(r)
    /\ r.step = "add" =>
        /\ \A pair \in r.gone : pair[1] = r.on /\ pair[2] \in r.seen \ r.wanted
        /\ r.on \notin disturbed =>
            \A t \in r.seen \ r.wanted : copies[r.on][t] > 0 => <<r.on, t>> \in r.gone
    /\ r.step = "delete" => \A pair \in r.gone : pair[2] = r.on
    /\ r.step = "drop" => \A pair \in r.gone : pair[1] = r.on

\* A list whose tables have not changed shows what they say.
ListOf(r) ==
    /\ r.step \in ListSteps => r.on \in Tags \cup {NoTagged}
    /\ r.step \in {"search", "names", "listed"} /\ r.on # NoTagged =>
        \A l \in r.logs : copies[l][r.on] > 0
    /\ r.step \in {"names", "listed"} => r.logs \subseteq taggable
    /\ r.step = "listed" =>
        \A l \in r.logs, t \in Tags : <<l, t>> \in r.names <=> copies[l][t] > 0

\* The foreign keys, and the mappings of an undisturbed log.
MappingsInv ==
    /\ TagRows \subseteq usedIds /\ taggable \subseteq usedIds
    /\ \A l \in TaggedLogs : chosen[l] \subseteq usedIds
    /\ \A l \in TaggedLogs, t \in Tags : copies[l][t] > 0 => l \in taggable /\ t \in TagRows
    /\ \A l \in taggable \ disturbed, t \in Tags :
        copies[l][t] = IF t \in chosen[l] \cap TagRows THEN 1 ELSE 0

TablesType ==
    /\ tagName \in [Tags -> TagNames \cup {NoName}]
    /\ usedIds \subseteq Tags \cup TaggedLogs
    /\ taggable \subseteq TaggedLogs
    /\ copies \in [TaggedLogs -> [Tags -> 0..MaxCopies]]
    /\ chosen \in [TaggedLogs -> SUBSET Tags]
    /\ disturbed \subseteq TaggedLogs

TagsCore ==
    /\ TablesType
    /\ tagReq \in [TagRequests -> TagRow]
    /\ MappingsInv
    /\ \A q \in TagRequests : RequestOf(tagReq[q])

TagsInv ==
    /\ TagsCore
    /\ stale \subseteq TagRequests
    /\ \A q \in TagRequests \ stale : tagReq[q].step \in ListSteps => ListOf(tagReq[q])

\* What a step of a request does to the invariant, before the lists it has made stale
\* are set aside.
TagsKept ==
    /\ TagsCore'
    /\ \A p \in TagRequests \ stale :
        tagReq'[p].step \in ListSteps /\ UNCHANGED tables => ListOf(tagReq[p])'

LEMMA IdleRow ==
    /\ TagIdle \in TagRow /\ TagIdle.step = "idle" /\ TagIdle.seen = {} /\ TagIdle.wanted = {}
    /\ TagIdle.gone = {}
BY DEF TagIdle, TagRow, TagSteps

\* A request goes on, and the tables stay.
LEMMA QuietMoves ==
    ASSUME TagsInv, NEW q \in TagRequests, NEW r \in TagRow, tagReq' = [tagReq EXCEPT ![q] = r],
           TablesStay, RequestOf(r), q \notin stale /\ r.step \in ListSteps => ListOf(r)
    PROVE  TagsKept
<1>1. \A p \in TagRequests : tagReq'[p] = IF p = q THEN r ELSE tagReq[p]
  BY DEF TagsInv, TagsCore
<1>2. UNCHANGED <<tagName, usedIds, taggable, copies, chosen, disturbed>>
  BY DEF TablesStay
<1>3. TagRows' = TagRows
  BY <1>2 DEF TagRows
<1>4. TablesType' /\ MappingsInv'
  BY <1>2, <1>3 DEF TagsInv, TagsCore, TablesType, MappingsInv
<1>5. ASSUME NEW p \in TagRequests PROVE RequestOf(tagReq[p])'
  <2>1. PICK x : x = tagReq'[p]
    OBVIOUS
  <2>2. RequestOf(x)
    BY <1>1, <2>1 DEF TagsInv, TagsCore
  <2> QED BY <1>2, <1>3, <2>1, <2>2 DEF RequestOf, ReadOf
<1>6. ASSUME NEW p \in TagRequests \ stale, tagReq'[p].step \in ListSteps PROVE ListOf(tagReq[p])'
  <2>1. PICK x : x = tagReq'[p]
    OBVIOUS
  <2>2. ListOf(x)
    BY <1>1, <1>6, <2>1 DEF TagsInv
  <2> QED BY <1>2, <2>1, <2>2 DEF ListOf
<1> QED BY <1>1, <1>4, <1>5, <1>6 DEF TagsInv, TagsCore, TagsKept

\* What others may do to a log that somebody updates.
Undisturbing(l) ==
    \A t \in Tags : /\ copies'[l][t] > 0 => copies[l][t] > 0
                    /\ copies[l][t] > 0 /\ copies'[l][t] = 0 => t \notin TagRows'
                    /\ t \in usedIds /\ t \in TagRows' => t \in TagRows

\* A request ends and writes the tables.
LEMMA TableMoves ==
    ASSUME TagsInv, NEW q \in TagRequests, Leave(q), TablesType', MappingsInv',
           usedIds \subseteq usedIds', disturbed \subseteq disturbed',
           \A p \in TagRequests \ {q} :
                tagReq[p].step \in {"remove", "add"} /\ tagReq[p].on \notin disturbed'
                    => Undisturbing(tagReq[p].on)
    PROVE  TagsKept
<1>1. \A p \in TagRequests : tagReq'[p] = IF p = q THEN TagIdle ELSE tagReq[p]
  BY DEF TagsInv, TagsCore, Leave
<1>2. tagReq' \in [TagRequests -> TagRow]
  BY IdleRow DEF TagsInv, TagsCore, Leave
<1>3. ASSUME NEW p \in TagRequests PROVE RequestOf(tagReq[p])'
  <2>1. CASE p = q
    BY <1>1, <2>1, IdleRow DEF RequestOf, LogSteps
  <2>2. CASE p # q
    <3>1. PICK r : r = tagReq[p]
      OBVIOUS
    <3>2. tagReq'[p] = r /\ RequestOf(r) /\ r \in TagRow
      BY <1>1, <2>2, <3>1 DEF TagsInv, TagsCore
    <3>3. r.seen \subseteq usedIds' /\ r.wanted \subseteq usedIds' /\ r.seen \subseteq Tags
      BY <3>2 DEF RequestOf, TagRow
    <3>4. r.step \in LogSteps => r.on \in TaggedLogs /\ r.on \in usedIds'
      BY <3>2 DEF RequestOf
    <3>5. ASSUME r.step \in {"remove", "add"}, r.on \notin disturbed'
          PROVE  /\ Undisturbing(r.on) /\ ReadOf(r) /\ ReadOf(r)'
      <4>1. Undisturbing(r.on) /\ ReadOf(r) /\ r.seen \subseteq usedIds
        BY <2>2, <3>1, <3>2, <3>5 DEF RequestOf
      <4>2. \A t \in Tags : copies[r.on][t] \in Nat /\ copies'[r.on][t] \in Nat
        BY <3>2, <3>5 DEF RequestOf, LogSteps, TagsInv, TagsCore, TablesType
      <4> QED BY <4>1, <4>2 DEF Undisturbing, ReadOf
    <3>6. ASSUME r.step = "add", r.on \notin disturbed', NEW t \in r.seen \ r.wanted, copies'[r.on][t] > 0
          PROVE  <<r.on, t>> \in r.gone
      <4>1. copies[r.on][t] > 0
        BY <3>3, <3>5, <3>6 DEF Undisturbing
      <4> QED BY <3>2, <3>6, <4>1 DEF RequestOf
    <3>7. RequestOf(r)'
      BY <3>2, <3>3, <3>4, <3>5, <3>6 DEF RequestOf
    <3> QED BY <3>2, <3>7 DEF RequestOf, ReadOf
  <2> QED BY <2>1, <2>2
<1>4. ASSUME NEW p \in TagRequests \ stale, tagReq'[p].step \in ListSteps, UNCHANGED tables
      PROVE  ListOf(tagReq[p])'
  <2>1. PICK x : x = tagReq'[p]
    OBVIOUS
  <2>2. p # q
    BY <1>1, <1>4, IdleRow DEF ListSteps
  <2>3. ListOf(x) /\ UNCHANGED <<copies, taggable>>
    BY <1>1, <1>4, <2>1, <2>2 DEF TagsInv, tables
  <2> QED BY <2>1, <2>3 DEF ListOf
<1> QED BY <1>2, <1>3, <1>4 DEF TagsCore, TagsKept

\* A request of which nothing is stale holds what its step has read.
LEMMA RequestHolds ==
    ASSUME TagsInv, NEW q \in TagRequests
    PROVE  /\ tagReq[q] \in TagRow /\ RequestOf(tagReq[q])
           /\ q \notin stale /\ tagReq[q].step \in ListSteps => ListOf(tagReq[q])
           /\ TagRows \subseteq Tags /\ TagRows \subseteq usedIds /\ taggable \subseteq usedIds
           /\ taggable \subseteq TaggedLogs
           /\ \A l \in TaggedLogs, t \in Tags : copies[l][t] \in 0..MaxCopies
BY DEF TagsInv, TagsCore, TablesType, MappingsInv, TagRows

\* Requests that begin.
LEMMA StartsQuietly ==
    ASSUME TagsInv, NEW q \in TagRequests, NEW r \in TagRow,
           r.step \in {"lookup", "create", "load", "unmap", "unlink", "ids", "search", "similar"},
           r.seen = {}, r.wanted \subseteq usedIds, r.gone = {},
           r.step \in {"load", "unlink"} => r.on \in taggable,
           r.step \in {"unmap", "ids"} => r.on \in Tags,
           r.step \in {"search", "similar"} => r.on = NoTagged,
           r.step = "lookup" => r.name \in TagNames,
           Start(q, r), TablesStay
    PROVE  TagsKept
<1>1. RequestOf(r)
  BY RequestHolds DEF RequestOf, LogSteps
<1>2. r.step \in ListSteps => ListOf(r)
  BY DEF ListOf, ListSteps
<1> QED BY <1>1, <1>2, QuietMoves DEF Start

LEMMA BeginsKeepTags ==
    ASSUME TagsInv, NEW q \in TagRequests,
           \/ CreateActivity(q) \/ CreateTaggedLog(q) \/ UpdateTaggedLog(q) \/ DeleteActivity(q)
           \/ DeleteTaggedLog(q) \/ ListByTag(q) \/ GetSummaryInsights(q)
           \/ SearchInsightWithSimilarity(q)
    PROVE  TagsKept
<1>1. /\ TagRows \subseteq Tags /\ TagRows \subseteq usedIds
      /\ taggable \subseteq usedIds /\ taggable \subseteq TaggedLogs
  BY RequestHolds
<1>2. CASE CreateActivity(q)
  <2>1. PICK name \in TagNames : Start(q, [TagIdle EXCEPT !.step = "lookup", !.name = name])
    BY <1>2 DEF CreateActivity
  <2>2. PICK r : r = [TagIdle EXCEPT !.step = "lookup", !.name = name]
    OBVIOUS
  <2>3. r \in TagRow /\ r.step = "lookup" /\ r.seen = {} /\ r.wanted = {} /\ r.gone = {} /\ r.name \in TagNames
    BY <2>2 DEF TagIdle, TagRow, TagSteps
  <2> QED BY <1>2, <2>1, <2>2, <2>3, StartsQuietly DEF CreateActivity
<1>3. CASE CreateTaggedLog(q)
  <2>1. PICK wanted \in SUBSET TagRows :
            Start(q, [TagIdle EXCEPT !.step = "create", !.wanted = wanted])
    BY <1>3 DEF CreateTaggedLog
  <2>2. PICK r : r = [TagIdle EXCEPT !.step = "create", !.wanted = wanted]
    OBVIOUS
  <2>3. r \in TagRow /\ r.step = "create" /\ r.seen = {} /\ r.wanted \subseteq usedIds /\ r.gone = {}
    BY <1>1, <2>2 DEF TagIdle, TagRow, TagSteps
  <2> QED BY <1>3, <2>1, <2>2, <2>3, StartsQuietly DEF CreateTaggedLog
<1>4. CASE UpdateTaggedLog(q)
  <2>1. PICK l \in taggable : \E wanted \in SUBSET TagRows :
            Start(q, [TagIdle EXCEPT !.step = "load", !.on = l, !.wanted = wanted])
    BY <1>4 DEF UpdateTaggedLog
  <2>2. PICK wanted \in SUBSET TagRows :
            Start(q, [TagIdle EXCEPT !.step = "load", !.on = l, !.wanted = wanted])
    BY <2>1
  <2>3. PICK r : r = [TagIdle EXCEPT !.step = "load", !.on = l, !.wanted = wanted]
    OBVIOUS
  <2>4. /\ r \in TagRow /\ r.step = "load" /\ r.on \in taggable /\ r.seen = {}
        /\ r.wanted \subseteq usedIds /\ r.gone = {}
    BY <1>1, <2>3 DEF TagIdle, TagRow, TagSteps
  <2> QED BY <1>4, <2>2, <2>3, <2>4, StartsQuietly DEF UpdateTaggedLog
<1>5. CASE DeleteActivity(q)
  <2>1. PICK t \in TagRows : Start(q, [TagIdle EXCEPT !.step = "unmap", !.on = t])
    BY <1>5 DEF DeleteActivity
  <2>2. PICK r : r = [TagIdle EXCEPT !.step = "unmap", !.on = t]
    OBVIOUS
  <2>3. /\ r \in TagRow /\ r.step = "unmap" /\ r.on \in Tags /\ r.seen = {} /\ r.wanted = {}
        /\ r.gone = {}
    BY <1>1, <2>2 DEF TagIdle, TagRow, TagSteps
  <2> QED BY <1>5, <2>1, <2>2, <2>3, StartsQuietly DEF DeleteActivity
<1>6. CASE DeleteTaggedLog(q)
  <2>1. PICK l \in taggable : Start(q, [TagIdle EXCEPT !.step = "unlink", !.on = l])
    BY <1>6 DEF DeleteTaggedLog
  <2>2. PICK r : r = [TagIdle EXCEPT !.step = "unlink", !.on = l]
    OBVIOUS
  <2>3. /\ r \in TagRow /\ r.step = "unlink" /\ r.on \in taggable /\ r.seen = {} /\ r.wanted = {}
        /\ r.gone = {}
    BY <1>1, <2>2 DEF TagIdle, TagRow, TagSteps
  <2> QED BY <1>6, <2>1, <2>2, <2>3, StartsQuietly DEF DeleteTaggedLog
<1>7. CASE ListByTag(q)
  <2>1. PICK t \in TagRows : Start(q, [TagIdle EXCEPT !.step = "ids", !.on = t])
    BY <1>7 DEF ListByTag
  <2>2. PICK r : r = [TagIdle EXCEPT !.step = "ids", !.on = t]
    OBVIOUS
  <2>3. /\ r \in TagRow /\ r.step = "ids" /\ r.on \in Tags /\ r.seen = {} /\ r.wanted = {}
        /\ r.gone = {}
    BY <1>1, <2>2 DEF TagIdle, TagRow, TagSteps
  <2> QED BY <1>7, <2>1, <2>2, <2>3, StartsQuietly DEF ListByTag
<1>8. CASE GetSummaryInsights(q)
  <2>1. PICK r : r = [TagIdle EXCEPT !.step = "search", !.logs = TaggedLogs]
    OBVIOUS
  <2>2. /\ r \in TagRow /\ r.step = "search" /\ r.on = NoTagged /\ r.seen = {} /\ r.wanted = {}
        /\ r.gone = {}
    BY <2>1 DEF TagIdle, TagRow, TagSteps
  <2> QED BY <1>8, <2>1, <2>2, StartsQuietly DEF GetSummaryInsights
<1>9. CASE SearchInsightWithSimilarity(q)
  <2>1. PICK r : r = [TagIdle EXCEPT !.step = "similar"]
    OBVIOUS
  <2>2. /\ r \in TagRow /\ r.step = "similar" /\ r.on = NoTagged /\ r.seen = {} /\ r.wanted = {} /\ r.gone = {}
    BY <2>1 DEF TagIdle, TagRow, TagSteps
  <2> QED BY <1>9, <2>1, <2>2, StartsQuietly DEF SearchInsightWithSimilarity
<1> QED BY <1>2, <1>3, <1>4, <1>5, <1>6, <1>7, <1>8, <1>9

\* Requests that end and have written nothing.
LEMMA LeavesQuietly ==
    ASSUME TagsInv, NEW q \in TagRequests, Leave(q), TablesStay
    PROVE  TagsKept
<1>1. RequestOf(TagIdle)
  BY IdleRow DEF RequestOf, LogSteps
<1>2. TagIdle.step \notin ListSteps
  BY IdleRow DEF ListSteps
<1> QED BY <1>1, <1>2, IdleRow, QuietMoves DEF Leave

\* The reads of an update, a deletion and the creation of a tag.
LEMMA ReadsKeepTags ==
    ASSUME TagsInv, NEW q \in TagRequests,
           \/ FindByNameAndUser(q) \/ LoadTaggedLog(q) \/ FindAllActivitiesByInsightId(q)
           \/ AbortTagRequest(q)
    PROVE  TagsKept
<1>1. PICK c : c = tagReq[q]
  OBVIOUS
<1>2. c \in TagRow /\ RequestOf(c)
  BY <1>1, RequestHolds
<1>3. TagRows \subseteq usedIds
  BY RequestHolds
<1>4. CASE AbortTagRequest(q)
  BY <1>4, LeavesQuietly DEF AbortTagRequest
<1>5. CASE FindByNameAndUser(q)
  <2>1. TablesStay /\ c.step = "lookup"
    BY <1>1, <1>5 DEF FindByNameAndUser, InStep
  <2>2. CASE Leave(q)
    BY <2>1, <2>2, LeavesQuietly
  <2>3. CASE Proceed(q, "insert")
    <3>1. PICK r : r = [c EXCEPT !.step = "insert"]
      OBVIOUS
    <3>2. tagReq' = [tagReq EXCEPT ![q] = r]
      BY <1>1, <2>3, <3>1 DEF Proceed
    <3>3. r \in TagRow /\ r.step = "insert" /\ r.name \in TagNames /\ r.seen = c.seen /\ r.wanted = c.wanted
      BY <1>2, <2>1, <3>1 DEF TagRow, TagSteps, RequestOf
    <3>4. RequestOf(r)
      BY <1>2, <3>3 DEF RequestOf, LogSteps
    <3> QED BY <2>1, <3>2, <3>3, <3>4, QuietMoves DEF ListSteps
  <2> QED BY <1>5, <2>2, <2>3 DEF FindByNameAndUser
<1>6. CASE LoadTaggedLog(q)
  <2>1. TablesStay /\ c.step = "load"
    BY <1>1, <1>6 DEF LoadTaggedLog, InStep
  <2>2. CASE Leave(q)
    BY <2>1, <2>2, LeavesQuietly
  <2>3. CASE Proceed(q, "read")
    <3>1. PICK r : r = [c EXCEPT !.step = "read"]
      OBVIOUS
    <3>2. tagReq' = [tagReq EXCEPT ![q] = r]
      BY <1>1, <2>3, <3>1 DEF Proceed
    <3>3. /\ r \in TagRow /\ r.step = "read" /\ r.on = c.on
          /\ r.seen = c.seen /\ r.wanted = c.wanted
      BY <1>2, <2>1, <3>1 DEF TagRow, TagSteps
    <3>4. RequestOf(r)
      BY <1>2, <2>1, <3>3 DEF RequestOf, LogSteps
    <3> QED BY <2>1, <3>2, <3>3, <3>4, QuietMoves DEF ListSteps
  <2> QED BY <1>6, <2>2, <2>3 DEF LoadTaggedLog
<1>7. CASE FindAllActivitiesByInsightId(q)
  <2>1. TablesStay /\ c.step = "read"
    BY <1>1, <1>7 DEF FindAllActivitiesByInsightId, InStep
  <2>2. c.on \in TaggedLogs /\ c.on \in usedIds
    BY <1>2, <2>1 DEF RequestOf, LogSteps
  <2>3. PICK seen : seen = {t \in Tags : copies[c.on][t] > 0}
    OBVIOUS
  <2>4. PICK r : r = [c EXCEPT !.step = "remove", !.seen = seen]
    OBVIOUS
  <2>5. tagReq' = [tagReq EXCEPT ![q] = r]
    BY <1>1, <1>7, <2>3, <2>4 DEF FindAllActivitiesByInsightId
  <2>6. seen \subseteq usedIds /\ seen \subseteq Tags
    BY <1>3, <2>2, <2>3 DEF TagsInv, TagsCore, MappingsInv
  <2>7. /\ r \in TagRow /\ r.step = "remove" /\ r.on = c.on /\ r.seen = seen
        /\ r.wanted = c.wanted
    BY <1>2, <2>4, <2>6 DEF TagRow, TagSteps
  <2>8. ReadOf(r)
    BY <2>3, <2>7 DEF ReadOf
  <2>9. RequestOf(r)
    BY <1>2, <2>2, <2>6, <2>7, <2>8 DEF RequestOf, LogSteps
  <2> QED BY <2>1, <2>5, <2>7, <2>9, QuietMoves DEF ListSteps
<1> QED BY <1>4, <1>5, <1>6, <1>7

\* The deletions of mappings, which the commit makes true.
LEMMA DeletesKeepTags ==
    ASSUME TagsInv, NEW q \in TagRequests,
           \/ DeleteByIds(q) \/ DeleteAllByActivityId(q) \/ DeleteAllByInsightId(q)
    PROVE  TagsKept
<1>1. PICK c : c = tagReq[q]
  OBVIOUS
<1>2. c \in TagRow /\ RequestOf(c)
  BY <1>1, RequestHolds
<1>3. CASE DeleteByIds(q)
  <2>1. c.step = "remove" /\ c.on \in TaggedLogs /\ c.on \in usedIds
    BY <1>1, <1>2, <1>3 DEF DeleteByIds, InStep, RequestOf, LogSteps
  <2>2. PICK rows : rows = {pair \in {c.on} \X (c.seen \ c.wanted) : copies[pair[1]][pair[2]] > 0}
    OBVIOUS
  <2>3. PICK r : r = [c EXCEPT !.step = "add", !.gone = rows]
    OBVIOUS
  <2>4. tagReq' = [tagReq EXCEPT ![q] = r] /\ TablesStay
    BY <1>1, <1>3, <2>2, <2>3 DEF DeleteByIds, DeleteMappings
  <2>5. \A pair \in rows : pair[1] = c.on /\ pair[2] \in c.seen \ c.wanted
    BY <2>2
  <2>6. rows \subseteq TaggedLogs \X Tags /\ c.seen \subseteq Tags
    BY <1>2, <2>1, <2>2 DEF TagRow
  <2>7. /\ r \in TagRow /\ r.step = "add" /\ r.on = c.on /\ r.seen = c.seen /\ r.gone = rows
        /\ r.wanted = c.wanted
    BY <1>2, <2>3, <2>6 DEF TagRow, TagSteps
  <2>8. \A t \in c.seen \ c.wanted : copies[c.on][t] > 0 => <<c.on, t>> \in rows
    BY <2>2
  <2>9. RequestOf(r)
    BY <1>2, <2>1, <2>5, <2>7, <2>8 DEF RequestOf, LogSteps, ReadOf
  <2> QED BY <2>4, <2>7, <2>9, QuietMoves DEF ListSteps
<1>4. CASE DeleteAllByActivityId(q)
  <2>1. c.step = "unmap" /\ c.on \in Tags
    BY <1>1, <1>2, <1>4 DEF DeleteAllByActivityId, InStep, RequestOf
  <2>2. PICK rows : rows = {pair \in TaggedLogs \X {c.on} : copies[pair[1]][pair[2]] > 0}
    OBVIOUS
  <2>3. PICK r : r = [c EXCEPT !.step = "delete", !.gone = rows]
    OBVIOUS
  <2>4. tagReq' = [tagReq EXCEPT ![q] = r] /\ TablesStay
    BY <1>1, <1>4, <2>2, <2>3 DEF DeleteAllByActivityId, DeleteMappings
  <2>5. rows \subseteq TaggedLogs \X Tags /\ \A pair \in rows : pair[2] = c.on
    BY <2>1, <2>2
  <2>6. /\ r \in TagRow /\ r.step = "delete" /\ r.on = c.on /\ r.seen = c.seen /\ r.gone = rows
        /\ r.wanted = c.wanted
    BY <1>2, <2>3, <2>5 DEF TagRow, TagSteps
  <2>7. RequestOf(r)
    BY <1>2, <2>1, <2>5, <2>6 DEF RequestOf, LogSteps
  <2> QED BY <2>4, <2>6, <2>7, QuietMoves DEF ListSteps
<1>5. CASE DeleteAllByInsightId(q)
  <2>1. c.step = "unlink" /\ c.on \in TaggedLogs /\ c.on \in usedIds
    BY <1>1, <1>2, <1>5 DEF DeleteAllByInsightId, InStep, RequestOf, LogSteps
  <2>2. PICK rows : rows = {pair \in {c.on} \X Tags : copies[pair[1]][pair[2]] > 0}
    OBVIOUS
  <2>3. PICK r : r = [c EXCEPT !.step = "drop", !.gone = rows]
    OBVIOUS
  <2>4. tagReq' = [tagReq EXCEPT ![q] = r] /\ TablesStay
    BY <1>1, <1>5, <2>2, <2>3 DEF DeleteAllByInsightId, DeleteMappings
  <2>5. rows \subseteq TaggedLogs \X Tags /\ \A pair \in rows : pair[1] = c.on
    BY <2>1, <2>2
  <2>6. /\ r \in TagRow /\ r.step = "drop" /\ r.on = c.on /\ r.seen = c.seen /\ r.gone = rows
        /\ r.wanted = c.wanted
    BY <1>2, <2>3, <2>5 DEF TagRow, TagSteps
  <2>7. RequestOf(r)
    BY <1>2, <2>1, <2>5, <2>6 DEF RequestOf, LogSteps
  <2> QED BY <2>4, <2>6, <2>7, QuietMoves DEF ListSteps
<1> QED BY <1>3, <1>4, <1>5

\* The reads of a list.
LEMMA ListsKeepTags ==
    ASSUME TagsInv, NEW q \in TagRequests,
           \/ FindAllInsightIdByActivityId(q) \/ SearchLogs(q) \/ FindSimilarInsights(q)
           \/ GetNamesByInsightIds(q)
    PROVE  TagsKept
<1>1. PICK c : c = tagReq[q]
  OBVIOUS
<1>2. /\ c \in TagRow /\ RequestOf(c) /\ taggable \subseteq TaggedLogs
      /\ q \notin stale /\ c.step \in ListSteps => ListOf(c)
  BY <1>1, RequestHolds
<1>3. CASE FindAllInsightIdByActivityId(q)
  <2>1. TablesStay /\ c.step = "ids" /\ c.on \in Tags
    BY <1>1, <1>2, <1>3 DEF FindAllInsightIdByActivityId, InStep, RequestOf
  <2>2. PICK ids : ids = {l \in TaggedLogs : copies[l][c.on] > 0}
    OBVIOUS
  <2>3. CASE ids = {}
    BY <1>1, <1>3, <2>1, <2>2, <2>3, LeavesQuietly DEF FindAllInsightIdByActivityId
  <2>4. CASE ids # {}
    <3>1. PICK r : r = [c EXCEPT !.step = "search", !.logs = ids]
      OBVIOUS
    <3>2. tagReq' = [tagReq EXCEPT ![q] = r]
      BY <1>1, <1>3, <2>2, <2>4, <3>1 DEF FindAllInsightIdByActivityId
    <3>3. /\ r \in TagRow /\ r.step = "search" /\ r.on = c.on /\ r.seen = c.seen
          /\ r.wanted = c.wanted /\ r.logs = ids
      BY <1>2, <2>2, <3>1 DEF TagRow, TagSteps
    <3>4. RequestOf(r)
      BY <1>2, <3>3 DEF RequestOf, LogSteps
    <3>5. ListOf(r)
      BY <2>1, <2>2, <3>3 DEF ListOf
    <3> QED BY <2>1, <3>2, <3>3, <3>4, <3>5, QuietMoves
  <2> QED BY <2>3, <2>4
<1>4. CASE SearchLogs(q)
  <2>1. TablesStay /\ c.step = "search"
    BY <1>1, <1>4 DEF SearchLogs, InStep
  <2>2. PICK r : r = [c EXCEPT !.step = "names", !.logs = c.logs \cap taggable]
    OBVIOUS
  <2>3. tagReq' = [tagReq EXCEPT ![q] = r]
    BY <1>1, <1>4, <2>2 DEF SearchLogs
  <2>4. /\ r \in TagRow /\ r.step = "names" /\ r.on = c.on /\ r.seen = c.seen
        /\ r.wanted = c.wanted /\ r.logs = c.logs \cap taggable
    BY <1>2, <2>2 DEF TagRow, TagSteps
  <2>5. RequestOf(r)
    BY <1>2, <2>4 DEF RequestOf, LogSteps
  <2>6. q \notin stale => ListOf(r)
    BY <1>2, <2>1, <2>4 DEF ListOf, ListSteps
  <2> QED BY <2>1, <2>3, <2>4, <2>5, <2>6, QuietMoves
<1>5. CASE FindSimilarInsights(q)
  <2>1. TablesStay /\ c.step = "similar" /\ c.on = NoTagged
    BY <1>1, <1>2, <1>5 DEF FindSimilarInsights, InStep, RequestOf
  <2>2. PICK near \in SUBSET taggable :
            tagReq' = [tagReq EXCEPT ![q].step = "names", ![q].logs = near]
    BY <1>5 DEF FindSimilarInsights
  <2>3. PICK r : r = [c EXCEPT !.step = "names", !.logs = near]
    OBVIOUS
  <2>4. tagReq' = [tagReq EXCEPT ![q] = r]
    BY <1>1, <2>2, <2>3
  <2>5. /\ r \in TagRow /\ r.step = "names" /\ r.on = c.on /\ r.seen = c.seen
        /\ r.wanted = c.wanted /\ r.logs = near
    BY <1>2, <2>3 DEF TagRow, TagSteps
  <2>6. RequestOf(r)
    BY <1>2, <2>5 DEF RequestOf, LogSteps
  <2>7. ListOf(r)
    BY <2>1, <2>5 DEF ListOf
  <2> QED BY <2>1, <2>4, <2>5, <2>6, <2>7, QuietMoves
<1>6. CASE GetNamesByInsightIds(q)
  <2>1. TablesStay /\ c.step = "names"
    BY <1>1, <1>6 DEF GetNamesByInsightIds, InStep
  <2>2. PICK names : names = FindAllActivitiesByInsightIds \cap (c.logs \X Tags)
    OBVIOUS
  <2>3. PICK r : r = [c EXCEPT !.step = "listed", !.names = names]
    OBVIOUS
  <2>4. tagReq' = [tagReq EXCEPT ![q] = r]
    BY <1>1, <1>6, <2>2, <2>3 DEF GetNamesByInsightIds
  <2>5. c.logs \subseteq TaggedLogs
    BY <1>2 DEF TagRow
  <2>6. names \subseteq TaggedLogs \X Tags
    BY <2>2 DEF FindAllActivitiesByInsightIds
  <2>7. \A l \in c.logs, t \in Tags : <<l, t>> \in names <=> copies[l][t] > 0
    BY <2>2, <2>5 DEF FindAllActivitiesByInsightIds
  <2>8. /\ r \in TagRow /\ r.step = "listed" /\ r.on = c.on /\ r.seen = c.seen
        /\ r.wanted = c.wanted /\ r.logs = c.logs /\ r.names = names
    BY <1>2, <2>3, <2>6 DEF TagRow, TagSteps
  <2>9. RequestOf(r)
    BY <1>2, <2>8 DEF RequestOf, LogSteps
  <2>10. q \notin stale => ListOf(r)
    BY <1>2, <2>1, <2>7, <2>8 DEF ListOf, ListSteps
  <2> QED BY <2>1, <2>4, <2>8, <2>9, <2>10, QuietMoves
<1> QED BY <1>3, <1>4, <1>5, <1>6

\* A tag is inserted under an id that nothing has named.
LEMMA InsertTagKeepsTags ==
    ASSUME TagsInv, NEW q \in TagRequests, InsertTag(q)
    PROVE  TagsKept
<1>1. PICK c : c = tagReq[q]
  OBVIOUS
<1>2. c.name \in TagNames /\ Leave(q) /\ UNCHANGED <<taggable, copies, chosen, disturbed>>
  BY <1>1, RequestHolds DEF InsertTag, InStep, RequestOf
<1>3. CASE UNCHANGED <<tagName, usedIds>>
  BY <1>2, <1>3, LeavesQuietly DEF TablesStay
<1>4. ASSUME NEW t \in Tags \ usedIds, tagName' = [tagName EXCEPT ![t] = c.name],
             usedIds' = usedIds \cup {t}
      PROVE  TagsKept
  <2>1. TagRows' = TagRows \cup {t} /\ t \notin TagRows
    BY <1>2, <1>4, TagConstants DEF TagRows, TagsInv, TagsCore, TablesType, MappingsInv
  <2>2. TablesType'
    BY <1>2, <1>4 DEF TablesType, TagsInv, TagsCore
  <2>3. \A l \in TaggedLogs : t \notin chosen[l]
    BY <1>4 DEF TagsInv, TagsCore, MappingsInv
  <2>4. MappingsInv'
    BY <1>2, <1>4, <2>1, <2>3 DEF TagsInv, TagsCore, TablesType, MappingsInv
  <2>5. \A l \in TaggedLogs : Undisturbing(l)
    BY <1>2, <1>4, <2>1 DEF Undisturbing
  <2>6. \A p \in TagRequests : tagReq[p].step \in {"remove", "add"} => tagReq[p].on \in TaggedLogs
    BY RequestHolds DEF RequestOf, LogSteps
  <2> QED BY <1>2, <1>4, <2>2, <2>4, <2>5, <2>6, TableMoves
<1> QED BY <1>1, <1>3, <1>4 DEF InsertTag

\* A log is inserted under an id that nothing has named, with the tags asked for.
LEMMA SaveKeepsTags ==
    ASSUME TagsInv, NEW q \in TagRequests, SaveAllByIds(q)
    PROVE  TagsKept
<1>1. PICK wanted : wanted = tagReq[q].wanted
  OBVIOUS
<1>2. Leave(q) /\ UNCHANGED <<tagName, disturbed>>
  BY DEF SaveAllByIds
<1>3. CASE UNCHANGED <<usedIds, taggable, copies, chosen>>
  BY <1>2, <1>3, LeavesQuietly DEF TablesStay
<1>4. ASSUME wanted \subseteq TagRows, NEW l \in TaggedLogs \ usedIds,
             usedIds' = usedIds \cup {l}, taggable' = taggable \cup {l},
             copies' = [copies EXCEPT ![l] = [t \in Tags |-> IF t \in wanted THEN 1 ELSE 0]],
             chosen' = [chosen EXCEPT ![l] = wanted]
      PROVE  TagsKept
  <2>1. TagRows' = TagRows /\ TagRows \subseteq Tags /\ TagRows \subseteq usedIds
    BY <1>2, RequestHolds DEF TagRows
  <2>2. [t \in Tags |-> IF t \in wanted THEN 1 ELSE 0] \in [Tags -> 0..MaxCopies]
    BY TagConstants
  <2>3. TablesType'
    BY <1>2, <1>4, <2>1, <2>2 DEF TablesType, TagsInv, TagsCore
  <2>4. \A k \in TaggedLogs, t \in Tags :
            copies'[k][t] = IF k = l THEN (IF t \in wanted THEN 1 ELSE 0) ELSE copies[k][t]
    BY <1>4 DEF TagsInv, TagsCore, TablesType
  <2>5. \A k \in TaggedLogs : chosen'[k] = IF k = l THEN wanted ELSE chosen[k]
    BY <1>4 DEF TagsInv, TagsCore, TablesType
  <2>6. MappingsInv'
    BY <1>2, <1>4, <2>1, <2>3, <2>4, <2>5 DEF TagsInv, TagsCore, MappingsInv, TablesType
  <2>7. \A k \in TaggedLogs \ {l} : Undisturbing(k)
    BY <2>1, <2>4 DEF Undisturbing
  <2>8. \A p \in TagRequests : tagReq[p].step \in {"remove", "add"} => tagReq[p].on \in TaggedLogs \ {l}
    BY <1>4, RequestHolds DEF RequestOf, LogSteps
  <2> QED BY <1>2, <1>4, <2>3, <2>6, <2>7, <2>8, TableMoves
<1> QED BY <1>1, <1>3, <1>4 DEF SaveAllByIds

\* An update ends: what it deletes and adds makes the log's tags those wanted.
LEMMA ReplaceKeepsTags ==
    ASSUME TagsInv, NEW q \in TagRequests, CompareAndReplaceByIds(q)
    PROVE  TagsKept
<1>1. PICK c : c = tagReq[q]
  OBVIOUS
<1>2. PICK l : l = c.on
  OBVIOUS
<1>3. /\ c \in TagRow /\ RequestOf(c) /\ c.step = "add" /\ l \in TaggedLogs /\ l \in usedIds
      /\ c.wanted \subseteq usedIds /\ c.wanted \subseteq Tags
  BY <1>1, <1>2, RequestHolds DEF CompareAndReplaceByIds, InStep, RequestOf, LogSteps, TagRow
<1>4. Leave(q) /\ UNCHANGED <<tagName, usedIds>> /\ TagRows' = TagRows
  BY DEF CompareAndReplaceByIds, TagRows
<1>5. CASE UNCHANGED <<copies, taggable, chosen, disturbed>>
  BY <1>4, <1>5, LeavesQuietly DEF TablesStay
<1>6. PICK added : added = c.wanted \ c.seen
  OBVIOUS
<1>7. PICK left : left = [t \in Tags |-> IF <<l, t>> \in c.gone THEN 0 ELSE copies[l][t]]
  OBVIOUS
<1>8. ASSUME added = {} \/ added \subseteq TagRows,
             \A t \in added : left[t] < MaxCopies,
             copies' = [copies EXCEPT ![l] =
                            [t \in Tags |-> left[t] + (IF t \in added THEN 1 ELSE 0)]],
             taggable' = taggable \cup {l}, chosen' = [chosen EXCEPT ![l] = c.wanted],
             disturbed' = Overlapped(q, l) \cup ({l} \ taggable)
      PROVE  TagsKept
  <2>1. \A t \in Tags : left[t] \in 0..MaxCopies /\ copies[l][t] \in 0..MaxCopies
    BY <1>3, <1>7, RequestHolds, TagConstants
  <2>2. \A t \in Tags : left[t] + (IF t \in added THEN 1 ELSE 0) \in 0..MaxCopies
    BY <1>8, <2>1, TagConstants
  <2>3. /\ disturbed \subseteq disturbed' /\ disturbed' \subseteq TaggedLogs
        /\ l \notin disturbed' => l \in taggable /\ l \notin disturbed
        /\ \A p \in TagRequests \ {q} : tagReq[p].step \in {"remove", "add"} /\ tagReq[p].on = l
                => l \in disturbed'
    BY <1>3, <1>8 DEF Overlapped, TagsInv, TagsCore, TablesType
  <2>4. TablesType'
    BY <1>3, <1>4, <1>8, <2>2, <2>3 DEF TablesType, TagsInv, TagsCore
  <2>5. \A k \in TaggedLogs, t \in Tags :
            copies'[k][t] = IF k = l THEN left[t] + (IF t \in added THEN 1 ELSE 0)
                            ELSE copies[k][t]
    BY <1>8 DEF TagsInv, TagsCore, TablesType
  <2>6. \A k \in TaggedLogs : chosen'[k] = IF k = l THEN c.wanted ELSE chosen[k]
    BY <1>8 DEF TagsInv, TagsCore, TablesType
  <2>7. \A t \in Tags : copies'[l][t] > 0 => t \in TagRows
    <3>1. \A t \in Tags : copies[l][t] > 0 => t \in TagRows
      BY <1>3 DEF TagsInv, TagsCore, MappingsInv
    <3>2. ASSUME NEW t \in Tags, t \notin added
          PROVE  copies'[l][t] = 0 \/ copies'[l][t] = copies[l][t]
      <4>1. copies'[l][t] = left[t] + 0 /\ left[t] \in 0..MaxCopies
        BY <1>3, <2>1, <2>5, <3>2
      <4>2. left[t] = 0 \/ left[t] = copies[l][t]
        BY <1>7
      <4> QED BY <4>1, <4>2
    <3> QED BY <1>8, <3>1, <3>2
  <2>8. ASSUME l \notin disturbed', NEW t \in Tags
        PROVE  copies'[l][t] = IF t \in c.wanted \cap TagRows THEN 1 ELSE 0
    <3>1. copies[l][t] = IF t \in chosen[l] \cap TagRows THEN 1 ELSE 0
      BY <2>3, <2>8 DEF TagsInv, TagsCore, MappingsInv
    <3>2. /\ copies[l][t] > 0 => t \in c.seen
          /\ t \in c.seen /\ copies[l][t] = 0 => t \notin TagRows
          /\ <<l, t>> \in c.gone => t \in c.seen \ c.wanted
          /\ t \in c.seen \ c.wanted /\ copies[l][t] > 0 => <<l, t>> \in c.gone
      BY <1>2, <1>3, <2>3, <2>8 DEF RequestOf, ReadOf
    <3>3. left[t] = IF <<l, t>> \in c.gone THEN 0 ELSE copies[l][t]
      BY <1>7
    <3>4. copies'[l][t] = left[t] + (IF t \in added THEN 1 ELSE 0)
      BY <1>3, <2>5
    <3>5. CASE t \in added
      BY <1>6, <1>8, <3>1, <3>2, <3>3, <3>4, <3>5
    <3>6. CASE t \notin added
      BY <1>6, <2>1, <3>1, <3>2, <3>3, <3>4, <3>6
    <3> QED BY <3>5, <3>6
  <2>9. MappingsInv'
    <3>1. TagRows \subseteq usedIds /\ taggable \cup {l} \subseteq usedIds
      BY <1>3 DEF TagsInv, TagsCore, MappingsInv
    <3>2. \A k \in TaggedLogs : chosen'[k] \subseteq usedIds
      BY <1>3, <2>6 DEF TagsInv, TagsCore, MappingsInv
    <3>3. \A k \in TaggedLogs, t \in Tags : copies'[k][t] > 0 => k \in taggable' /\ t \in TagRows
      BY <1>8, <2>5, <2>7 DEF TagsInv, TagsCore, MappingsInv
    <3>4. \A k \in taggable' \ disturbed', t \in Tags :
              copies'[k][t] = IF t \in chosen'[k] \cap TagRows THEN 1 ELSE 0
      <4>1. taggable' \subseteq TaggedLogs
        BY <2>4 DEF TablesType
      <4> QED BY <1>8, <2>3, <2>5, <2>6, <2>8, <4>1 DEF TagsInv, TagsCore, MappingsInv
    <3> QED BY <1>4, <1>8, <3>1, <3>2, <3>3, <3>4 DEF MappingsInv
  <2>10. \A k \in TaggedLogs \ {l} : Undisturbing(k)
    BY <1>4, <2>5 DEF Undisturbing
  <2>11. \A p \in TagRequests : tagReq[p].step \in {"remove", "add"} => tagReq[p].on \in TaggedLogs
    BY RequestHolds DEF RequestOf, LogSteps
  <2> QED BY <1>4, <2>3, <2>4, <2>9, <2>10, <2>11, TableMoves
<1>9. /\ ToAddIds(q) = added
      /\ \A t \in Tags : Remaining(q)[l][t] = left[t]
      /\ added \subseteq Tags
  BY <1>1, <1>3, <1>6, <1>7 DEF ToAddIds, Remaining
<1>10. CASE ToAddIds(q) = {} \/ (ToAddIds(q) \subseteq TagRows /\ l \in taggable)
  <2>1. /\ \A t \in ToAddIds(q) : Remaining(q)[l][t] < MaxCopies
        /\ copies' = [copies EXCEPT ![l] = [t \in Tags |->
                            Remaining(q)[l][t] + (IF t \in ToAddIds(q) THEN 1 ELSE 0)]]
        /\ taggable' = taggable \cup {l}
        /\ chosen' = [chosen EXCEPT ![l] = c.wanted]
        /\ disturbed' = Overlapped(q, l) \cup ({l} \ taggable)
    BY <1>1, <1>2, <1>10 DEF CompareAndReplaceByIds
  <2>2. [t \in Tags |-> Remaining(q)[l][t] + (IF t \in ToAddIds(q) THEN 1 ELSE 0)]
            = [t \in Tags |-> left[t] + (IF t \in added THEN 1 ELSE 0)]
    BY <1>9
  <2> QED BY <1>8, <1>9, <1>10, <2>1, <2>2
<1>11. CASE ~(ToAddIds(q) = {} \/ (ToAddIds(q) \subseteq TagRows /\ l \in taggable))
  BY <1>1, <1>2, <1>5, <1>11 DEF CompareAndReplaceByIds
<1> QED BY <1>10, <1>11

\* A tag is deleted, and with it its mappings.
LEMMA DeleteTagKeepsTags ==
    ASSUME TagsInv, NEW q \in TagRequests, DeleteTag(q)
    PROVE  TagsKept
<1>1. PICK c : c = tagReq[q]
  OBVIOUS
<1>2. PICK t : t = c.on
  OBVIOUS
<1>3. t \in Tags /\ \A pair \in c.gone : pair[2] = t
  BY <1>1, <1>2, RequestHolds DEF DeleteTag, InStep, RequestOf
<1>4. Leave(q) /\ UNCHANGED <<usedIds, taggable, chosen, disturbed>>
  BY DEF DeleteTag
<1>5. CASE UNCHANGED <<tagName, copies>>
  BY <1>4, <1>5, LeavesQuietly DEF TablesStay
<1>6. ASSUME \A l \in TaggedLogs : ~(Remaining(q)[l][t] > 0),
             tagName' = [tagName EXCEPT ![t] = NoName], copies' = Remaining(q)
      PROVE  TagsKept
  <2>1. \A l \in TaggedLogs, u \in Tags :
            /\ Remaining(q)[l][u] = IF <<l, u>> \in c.gone THEN 0 ELSE copies[l][u]
            /\ copies[l][u] \in 0..MaxCopies
    BY <1>1, RequestHolds DEF Remaining
  <2>2. \A l \in TaggedLogs, u \in Tags : copies'[l][u] = IF u = t THEN 0 ELSE copies[l][u]
    <3>1. ASSUME NEW l \in TaggedLogs PROVE copies'[l][t] = 0
      <4>1. Remaining(q)[l][t] = 0 \/ Remaining(q)[l][t] = copies[l][t]
        BY <1>3, <2>1
      <4>2. copies[l][t] \in 0..MaxCopies /\ ~(Remaining(q)[l][t] > 0)
        BY <1>3, <1>6, <2>1
      <4> QED BY <1>6, <4>1, <4>2
    <3>2. \A l \in TaggedLogs, u \in Tags \ {t} : copies'[l][u] = copies[l][u]
      BY <1>3, <1>6, <2>1
    <3> QED BY <3>1, <3>2
  <2>3. copies' \in [TaggedLogs -> [Tags -> 0..MaxCopies]]
    <3>1. 0 \in 0..MaxCopies
      BY TagConstants
    <3>2. \A l \in TaggedLogs, u \in Tags :
              (IF <<l, u>> \in tagReq[q].gone THEN 0 ELSE copies[l][u]) \in 0..MaxCopies
      BY <2>1, <3>1
    <3> QED BY <1>6, <3>2 DEF Remaining
  <2>4. TagRows' = TagRows \ {t}
    BY <1>3, <1>6, TagConstants DEF TagRows, TagsInv, TagsCore, TablesType
  <2>5. TablesType'
    BY <1>4, <1>6, <2>3 DEF TablesType, TagsInv, TagsCore
  <2>6. MappingsInv'
    BY <1>4, <2>2, <2>4 DEF TagsInv, TagsCore, MappingsInv, TablesType
  <2>7. \A l \in TaggedLogs : Undisturbing(l)
    BY <2>2, <2>4 DEF Undisturbing
  <2>8. \A p \in TagRequests : tagReq[p].step \in {"remove", "add"} => tagReq[p].on \in TaggedLogs
    BY RequestHolds DEF RequestOf, LogSteps
  <2> QED BY <1>4, <2>5, <2>6, <2>7, <2>8, TableMoves
<1> QED BY <1>1, <1>2, <1>5, <1>6 DEF DeleteTag

\* A log is deleted, and with it its mappings.
LEMMA DropLogKeepsTags ==
    ASSUME TagsInv, NEW q \in TagRequests, DropLog(q)
    PROVE  TagsKept
<1>1. PICK c : c = tagReq[q]
  OBVIOUS
<1>2. PICK l : l = c.on
  OBVIOUS
<1>3. l \in TaggedLogs /\ \A pair \in c.gone : pair[1] = l
  BY <1>1, <1>2, RequestHolds DEF DropLog, InStep, RequestOf, LogSteps
<1>4. Leave(q) /\ UNCHANGED <<tagName, usedIds, chosen>> /\ TagRows' = TagRows
  BY DEF DropLog, TagRows
<1>5. CASE UNCHANGED <<taggable, copies, disturbed>>
  BY <1>4, <1>5, LeavesQuietly DEF TablesStay
<1>6. ASSUME \A t \in Tags : ~(Remaining(q)[l][t] > 0),
             taggable' = taggable \ {l}, copies' = Remaining(q), disturbed' = Overlapped(q, l)
      PROVE  TagsKept
  <2>1. \A k \in TaggedLogs, u \in Tags :
            /\ Remaining(q)[k][u] = IF <<k, u>> \in c.gone THEN 0 ELSE copies[k][u]
            /\ copies[k][u] \in 0..MaxCopies
    BY <1>1, RequestHolds DEF Remaining
  <2>2. \A k \in TaggedLogs, u \in Tags : copies'[k][u] = IF k = l THEN 0 ELSE copies[k][u]
    <3>1. ASSUME NEW u \in Tags PROVE copies'[l][u] = 0
      <4>1. Remaining(q)[l][u] = 0 \/ Remaining(q)[l][u] = copies[l][u]
        BY <1>3, <2>1
      <4>2. copies[l][u] \in 0..MaxCopies /\ ~(Remaining(q)[l][u] > 0)
        BY <1>3, <1>6, <2>1
      <4> QED BY <1>6, <4>1, <4>2
    <3>2. ASSUME NEW k \in TaggedLogs \ {l}, NEW u \in Tags PROVE copies'[k][u] = copies[k][u]
      <4>1. <<k, u>> \notin c.gone
        BY <1>3
      <4> QED BY <1>6, <2>1, <4>1
    <3> QED BY <3>1, <3>2
  <2>3. copies' \in [TaggedLogs -> [Tags -> 0..MaxCopies]]
    <3>1. 0 \in 0..MaxCopies
      BY TagConstants
    <3>2. \A k \in TaggedLogs, u \in Tags :
              (IF <<k, u>> \in tagReq[q].gone THEN 0 ELSE copies[k][u]) \in 0..MaxCopies
      BY <2>1, <3>1
    <3> QED BY <1>6, <3>2 DEF Remaining
  <2>4. /\ disturbed \subseteq disturbed' /\ disturbed' \subseteq TaggedLogs
        /\ \A p \in TagRequests \ {q} : tagReq[p].step \in {"remove", "add"} /\ tagReq[p].on = l
                => l \in disturbed'
    BY <1>3, <1>6 DEF Overlapped, TagsInv, TagsCore, TablesType
  <2>5. TablesType'
    BY <1>4, <1>6, <2>3, <2>4 DEF TablesType, TagsInv, TagsCore
  <2>6. MappingsInv'
    BY <1>4, <1>6, <2>2, <2>4 DEF TagsInv, TagsCore, MappingsInv, TablesType
  <2>7. \A k \in TaggedLogs \ {l} : Undisturbing(k)
    BY <1>4, <2>2 DEF Undisturbing
  <2>8. \A p \in TagRequests : tagReq[p].step \in {"remove", "add"} => tagReq[p].on \in TaggedLogs
    BY RequestHolds DEF RequestOf, LogSteps
  <2> QED BY <1>4, <2>4, <2>5, <2>6, <2>7, <2>8, TableMoves
<1> QED BY <1>1, <1>2, <1>5, <1>6 DEF DropLog

LEMMA StepsKeepTags ==
    ASSUME TagsInv, NEW q \in TagRequests, TagStep(q)
    PROVE  TagsKept
BY BeginsKeepTags, ReadsKeepTags, DeletesKeepTags, ListsKeepTags, InsertTagKeepsTags,
   SaveKeepsTags, ReplaceKeepsTags, DeleteTagKeepsTags, DropLogKeepsTags DEF TagStep

LEMMA TagsInitial == TagsInit => TagsInv
<1> SUFFICES ASSUME TagsInit PROVE TagsInv
  OBVIOUS
<1>1. TagRows = {}
  BY DEF TagsInit, TagRows
<1>2. TablesType /\ MappingsInv
  BY <1>1, TagConstants DEF TagsInit, TablesType, MappingsInv
<1>3. tagReq \in [TagRequests -> TagRow] /\ \A q \in TagRequests : tagReq[q] = TagIdle
  BY IdleRow DEF TagsInit
<1>4. \A q \in TagRequests : RequestOf(tagReq[q]) /\ tagReq[q].step \notin ListSteps
  BY <1>3, IdleRow DEF RequestOf, LogSteps, ListSteps
<1> QED BY <1>2, <1>3, <1>4 DEF TagsInit, TagsInv, TagsCore

LEMMA TagsInductive == TagsInv /\ [TagsNext]_tagVars => TagsInv'
<1> SUFFICES ASSUME TagsInv, [TagsNext]_tagVars PROVE TagsInv'
  OBVIOUS
<1>1. CASE TagsNext
  <2>1. PICK q \in TagRequests : TagStep(q)
    BY <1>1 DEF TagsNext
  <2>2. TagsKept
    BY <2>1, StepsKeepTags
  <2>3. /\ stale' \subseteq TagRequests
        /\ \A p \in TagRequests \ stale' :
                tagReq'[p].step \in ListSteps => p \notin stale /\ UNCHANGED tables
    BY <1>1 DEF TagsNext, Listing, InStep, ListSteps
  <2> QED BY <2>2, <2>3 DEF TagsKept, TagsInv
<1>2. CASE UNCHANGED tagVars
  <2>1. UNCHANGED <<tagName, usedIds, taggable, copies, tagReq, chosen, disturbed, stale>>
    BY <1>2 DEF tagVars, tables
  <2>2. TagRows' = TagRows
    BY <2>1 DEF TagRows
  <2>3. TablesType' /\ MappingsInv'
    BY <2>1, <2>2 DEF TagsInv, TagsCore, TablesType, MappingsInv
  <2>4. \A q \in TagRequests : RequestOf(tagReq[q])' /\ (ListOf(tagReq[q]) => ListOf(tagReq[q])')
    BY <2>1, <2>2 DEF TagsInv, TagsCore, RequestOf, ReadOf, ListOf
  <2> QED BY <2>1, <2>3, <2>4 DEF TagsInv, TagsCore
<1> QED BY <1>1, <1>2

LEMMA TagsInvariant == TagsSpec => []TagsInv
BY TagsInitial, TagsInductive, PTL DEF TagsSpec

\* The tables, the requests and the lists keep their types.
THEOREM TagsAreWellFormed == TagsSpec => []TagsTypeOK
<1>1. TagsInv => TagsTypeOK
  BY DEF TagsInv, TagsCore, TablesType, TagRow, TagSteps, TagsTypeOK
<1> QED BY <1>1, TagsInvariant, PTL

\* A log that no two requests saved or deleted at once carries the tags it was last saved
\* with that are not deleted, each once, and a list read while no table changed shows it so.
THEOREM LogsHaveTheirTags == TagsSpec => []LogHasItsTags
<1>1. ASSUME TagsInv PROVE LogHasItsTags
  <2>1. \A l \in taggable \ disturbed, t \in Tags :
            copies[l][t] = IF t \in chosen[l] \cap TagRows THEN 1 ELSE 0
    BY <1>1 DEF TagsInv, TagsCore, MappingsInv
  <2>2. ASSUME NEW q \in TagRequests \ stale, NEW l \in TaggedLogs \ disturbed,
               InStep(q, "listed"), l \in tagReq[q].logs
        PROVE  /\ {t \in Tags : <<l, t>> \in tagReq[q].names} = chosen[l] \cap TagRows
               /\ tagReq[q].on # NoTagged => tagReq[q].on \in chosen[l]
    <3>1. PICK c : c = tagReq[q]
      OBVIOUS
    <3>2. c.step = "listed" /\ l \in c.logs /\ ListOf(c)
      BY <1>1, <2>2, <3>1 DEF TagsInv, InStep, ListSteps
    <3>3. l \in taggable \ disturbed
      BY <2>2, <3>2 DEF ListOf
    <3>4. \A t \in Tags : <<l, t>> \in c.names <=> t \in chosen[l] \cap TagRows
      BY <2>1, <3>2, <3>3 DEF ListOf
    <3>5. chosen[l] \cap TagRows \subseteq Tags
      BY DEF TagRows
    <3>6. c.on # NoTagged => c.on \in Tags /\ copies[l][c.on] > 0
      BY <3>2 DEF ListOf, ListSteps
    <3> QED BY <2>1, <3>1, <3>3, <3>4, <3>5, <3>6
  <2> QED BY <2>1, <2>2 DEF LogHasItsTags
<1> QED BY <1>1, TagsInvariant, PTL
===============================================================================
