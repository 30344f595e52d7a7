------------------------------- MODULE Insights -------------------------------
(***************************************************************************)
(* The insight logs of one user: InsightService checks the title, asks the *)
(* embedding service, and only then writes in a transaction; the vector it *)
(* stores has to be the one of the text it stores, for the similarity      *)
(* search.                                                                 *)
(*                                                                         *)
(* A vector is the pair of texts it was computed from.  A step is one      *)
(* statement or one call; the embedding is a column save(insight) does not *)
(* load, so it stays what it is unless it is set.                          *)
(***************************************************************************)
EXTENDS Naturals, FiniteSets

CONSTANTS
    Logs,           \* ids of the insight table
    Titles,         \* titles a user may give
    Descriptions,   \* descriptions a user may give
    Edits,          \* executions of createInsight and updateInsight
    Unset,          \* a field a request leaves out; no vector; no log
    MaxInsights     \* MAX_INSIGHTS_PER_USER

ASSUME InsightConstants ==
    /\ MaxInsights \in Nat
    /\ Unset \notin Logs \cup Titles \cup Descriptions \cup (Titles \X Descriptions)

VARIABLES
    log,            \* the committed rows
    issued,         \* ids the table has given out
    edit,           \* where a request is, what it asks for and has read
    collisions      \* have two updates of one log overlapped, or one a deletion

insightVars == <<log, issued, edit, collisions>>

Vectors == (Titles \X Descriptions) \cup {Unset}
Text == [title : Titles \cup {Unset}, description : Descriptions \cup {Unset}]
NoText == [title |-> Unset, description |-> Unset]
NoLog == [text |-> NoText, embedding |-> Unset]
NoEdit == [pc |-> "idle", log |-> Unset, asks |-> NoText, vector |-> Unset, seen |-> NoText]

InsightsTypeOK ==
    /\ log \in [Logs -> [text : Text, embedding : Vectors]]
    /\ issued \subseteq Logs
    /\ edit \in [Edits ->
            [pc : {"idle", "embed", "count", "insert", "load", "save"}, log : Logs \cup {Unset},
             asks : Text, vector : Vectors, seen : Text]]
    /\ collisions \in BOOLEAN

InsightsInit ==
    /\ log = [l \in Logs |-> NoLog]
    /\ issued = {}
    /\ edit = [q \in Edits |-> NoEdit]
    /\ collisions = FALSE

-------------------------------------------------------------------------------
Existing == {l \in Logs : log[l] # NoLog}
TitleTaken(title) == \E l \in Existing : log[l].text.title = title
Stage(q, pc) == edit[q].pc = pc
Quit(q) == edit' = [edit EXCEPT ![q] = NoEdit]

\* Another update of the same log is under way.
Collides(q) == \E p \in Edits \ {q} : ~Stage(p, "idle") /\ edit[p].log = edit[q].log

\* The vector of the text a request leaves behind, if it changes the text it has read.
VectorOf(asks, was) ==
    LET given(field) == IF asks[field] = Unset THEN was[field] ELSE asks[field]
        changed == \E field \in {"title", "description"} : given(field) # was[field]
    IN IF changed THEN <<given("title"), given("description")>> ELSE Unset

\* createInsight: the count, which lets one more than the maximum in, and the title.
CreateInsight(q) ==
    /\ Stage(q, "idle")
    /\ Cardinality(Existing) <= MaxInsights
    /\ \E title \in Titles, description \in Descriptions :
        /\ ~TitleTaken(title)
        /\ edit' = [edit EXCEPT ![q] = [NoEdit EXCEPT !.pc = "embed",
                        !.asks = [title |-> title, description |-> description],
                        !.vector = <<title, description>>]]
    /\ UNCHANGED <<log, issued, collisions>>

\* updateInsight: a new title must be free; the vector is that of the text as it is now.
UpdateInsight(q) ==
    /\ Stage(q, "idle")
    /\ \E l \in Existing, asks \in Text :
        /\ asks.title \notin {Unset, log[l].text.title} => ~TitleTaken(asks.title)
        /\ edit' = [edit EXCEPT ![q] = [NoEdit EXCEPT !.pc = "embed", !.log = l,
                        !.asks = asks, !.vector = VectorOf(asks, log[l].text)]]
    /\ UNCHANGED <<log, issued, collisions>>

\* getEmbedding answers or fails; an update that changes no text does not ask.
GetEmbedding(q) ==
    /\ Stage(q, "embed")
    /\ \/ edit' = [edit EXCEPT ![q].pc = IF edit[q].log = Unset THEN "count" ELSE "load"]
       \/ edit[q].vector # Unset /\ Quit(q)
    /\ UNCHANGED <<log, issued, collisions>>

\* createInsightTransaction counts again, but does not ask for the title again.
CountAgain(q) ==
    /\ Stage(q, "count")
    /\ edit' = [edit EXCEPT ![q] = IF Cardinality(Existing) <= MaxInsights
                                   THEN [@ EXCEPT !.pc = "insert"] ELSE NoEdit]
    /\ UNCHANGED <<log, issued, collisions>>

InsertInsight(q) ==
    /\ Stage(q, "insert")
    /\ \E l \in Logs \ issued :
        /\ issued' = issued \cup {l}
        /\ log' = [log EXCEPT ![l] = [text |-> edit[q].asks, embedding |-> edit[q].vector]]
    /\ Quit(q)
    /\ UNCHANGED collisions

\* updateInsightTransaction reads the row again ...
LoadForUpdate(q) ==
    /\ Stage(q, "load")
    /\ edit' = [edit EXCEPT ![q] = IF edit[q].log \in Existing
                    THEN [@ EXCEPT !.pc = "save", !.seen = log[edit[q].log].text] ELSE NoEdit]
    /\ UNCHANGED <<log, issued, collisions>>

\* Mutant: a new description keeps the old vector.
SaveTitleVector(q) ==
    /\ Stage(q, "save")
    /\ LET l == edit[q].log
           e == edit[q]
       IN log' = [log EXCEPT
            ![l].text.title = IF e.asks.title = Unset THEN e.seen.title ELSE e.asks.title,
            ![l].text.description = IF e.asks.description = Unset THEN e.seen.description
                                    ELSE e.asks.description,
            ![l].embedding = IF e.asks.title \notin {Unset, e.seen.title} THEN e.vector ELSE @]
    /\ collisions' = (collisions \/ Collides(q) \/ edit[q].log \notin Existing)
    /\ Quit(q)
    /\ UNCHANGED issued

\* ... and saves both texts; the vector goes with a text that differs from the row read.
\* A row deleted meanwhile is inserted again.
SaveInsight(q) ==
    /\ Stage(q, "save")
    /\ LET l == edit[q].log
           e == edit[q]
       IN log' = [log EXCEPT
            ![l].text.title = IF e.asks.title = Unset THEN e.seen.title ELSE e.asks.title,
            ![l].text.description = IF e.asks.description = Unset THEN e.seen.description
                                    ELSE e.asks.description,
            ![l].embedding = IF VectorOf(e.asks, e.seen) # Unset /\ e.vector # Unset
                             THEN e.vector ELSE @]
    /\ collisions' = (collisions \/ Collides(q) \/ edit[q].log \notin Existing)
    /\ Quit(q)
    /\ UNCHANGED issued

DeleteInsight(l) ==
    /\ l \in Existing
    /\ log' = [log EXCEPT ![l] = NoLog]
    /\ UNCHANGED <<issued, edit, collisions>>

InsightStep(q) ==
    \/ CreateInsight(q)
    \/ UpdateInsight(q)
    \/ GetEmbedding(q)
    \/ CountAgain(q)
    \/ InsertInsight(q)
    \/ LoadForUpdate(q)
    \/ SaveInsight(q)

InsightsNext == (\E q \in Edits : InsightStep(q)) \/ (\E l \in Logs : DeleteInsight(l))

InsightsSpec == InsightsInit /\ [][InsightsNext]_insightVars

-------------------------------------------------------------------------------
\* The similarity search compares the text the user reads: the stored vector is the one
\* of the stored title and description, though it was computed before the transaction.
\* An update beside another one or beside the deletion of its log is set aside.
VectorOfItsText ==
    ~collisions => \A l \in Existing :
        log[l].embedding = <<log[l].text.title, log[l].text.description>>
=============================================================================
