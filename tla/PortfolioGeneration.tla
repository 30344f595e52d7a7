------------------------- MODULE PortfolioGeneration -------------------------
(***************************************************************************)
(* The portfolio of one experience: InterviewFacade.generatePortfolio with *)
(* its compensation, the callback of the AI server                         *)
(* (InternalPortfolioFacade.savePortfolioResult), and the edits and the    *)
(* deletion a user may send meanwhile.                                     *)
(*                                                                         *)
(* `experience' and `row' are committed values; a step is one statement,   *)
(* or one call to the AI server.  A transaction's writes are committed by  *)
(* its last step, and until then `lock' holds the rows it has written.     *)
(* save(entity) writes every loaded column that differs from the row, and  *)
(* inserts the entity again when the row is gone, without the relations    *)
(* the query did not load: an ORPHAN portfolio, an experience of no user.  *)
(***************************************************************************)
EXTENDS Naturals, FiniteSets

CONSTANTS
    Portfolios,  \* portfolio ids
    Generators,  \* executions of generatePortfolio
    Callbacks,   \* executions of savePortfolioResult
    Edits,       \* executions of updateExperience or updatePortfolio
    Experience,  \* the row of the experience, as something to lock
    Free,        \* of a lock nobody holds
    NoPortfolio  \* of a process that has no portfolio

Processes == Generators \cup Callbacks \cup Edits

ASSUME GenerationConstants ==
    /\ Experience \notin Portfolios
    /\ NoPortfolio \notin Portfolios
    /\ Free \notin Processes
    /\ Generators \cap Callbacks = {}
    /\ Generators \cap Edits = {}
    /\ Callbacks \cap Edits = {}

VARIABLES
    experience,  \* experience.status; "NONE" when the row is gone
    deleted,     \* the user has deleted the experience
    row,         \* portfolio.status; "NONE" when there is no row
    job,         \* what the AI server knows of a portfolio
    lock,        \* the transaction that has written a row
    process,     \* where a request is and what it has loaded
    mishaps      \* what has gone wrong, once each: a crash, a lost reply, a lost update

vars == <<experience, deleted, row, job, lock, process, mishaps>>

ExperienceStatus == {"ON_CHAT", "GENERATE", "DONE", "GENERATE_FAILED"}
Results == {"COMPLETED", "FAILED"}
Linked == {"GENERATING"} \cup Results
PortfolioStatus == Linked \cup {"NONE", "ORPHAN"}
JobState == {"unused", "new", "accepted"} \cup Results

Steps == {"idle", "session", "insert", "delegate",
          "readRow", "readExperience", "remove", "fail",
          "write", "transition", "commit", "update", "portfolio"}

GenerationTypeOK ==
    /\ experience \in ExperienceStatus \cup {"NONE"}
    /\ deleted \in BOOLEAN
    /\ row \in [Portfolios -> PortfolioStatus]
    /\ job \in [Portfolios -> JobState]
    /\ lock \in [Portfolios \cup {Experience} -> Processes \cup {Free}]
    /\ process \in [Processes ->
            [pc : Steps, status : ExperienceStatus \cup {"NONE"},
             portfolio : Portfolios \cup {NoPortfolio}, loaded : PortfolioStatus]]
    /\ mishaps \subseteq {"crash", "reply", "edit"}

Idle == [pc |-> "idle", status |-> "NONE", portfolio |-> NoPortfolio, loaded |-> "NONE"]

GenerationInit ==
    /\ experience = "ON_CHAT"
    /\ deleted = FALSE
    /\ row = [p \in Portfolios |-> "NONE"]
    /\ job = [p \in Portfolios |-> "unused"]
    /\ lock = [r \in Portfolios \cup {Experience} |-> Free]
    /\ process = [q \in Processes |-> Idle]
    /\ mishaps = {}

-------------------------------------------------------------------------------
At(q, pc) == process[q].pc = pc
Goto(q, pc) == process' = [process EXCEPT ![q].pc = pc]
Ends(q) == process' = [process EXCEPT ![q] = Idle]
Holds(q, r) == lock[r] = q
CanWrite(q, r) == lock[r] \in {q, Free}
Acquire(q, r) == CanWrite(q, r) /\ lock' = [lock EXCEPT ![r] = q]
Release(q) == lock' = [r \in DOMAIN lock |-> IF lock[r] = q THEN Free ELSE lock[r]]

\* The transaction of q is over, committed or rolled back, and its request with it.
EndTransaction(q) == Release(q) /\ Ends(q)

LinkedRows == {p \in Portfolios : row[p] \in Linked}

-------------------------------------------------------------------------------
(* generatePortfolio                                                        *)

\* The experience is loaded here and saved after the AI server has been asked
\* whether the interview is complete.
LoadExperience(g) ==
    /\ At(g, "idle")
    /\ experience # "NONE" /\ ~deleted
    /\ process' = [process EXCEPT ![g] = [Idle EXCEPT !.pc = "session", !.status = experience]]
    /\ UNCHANGED <<experience, deleted, row, job, lock, mishaps>>

\* transitionToGenerate, on the loaded entity.  An interview that is not complete
\* or another status is an error.
TransitionToGenerate(g) ==
    /\ At(g, "session")
    /\ \/ Ends(g) /\ UNCHANGED lock
       \/ /\ process[g].status \in {"ON_CHAT", "GENERATE_FAILED"}
          /\ IF experience = "GENERATE"
             THEN UNCHANGED lock
             ELSE Acquire(g, Experience)
          /\ Goto(g, "insert")
    /\ UNCHANGED <<experience, deleted, row, job, mishaps>>

\* The INSERT waits for a transaction that has written the row with this
\* experience_id; a committed row with it, or an experience that is gone, is an
\* error.
InsertPortfolio(g) ==
    /\ At(g, "insert")
    /\ \A p \in Portfolios : CanWrite(g, p)
    /\ \/ /\ LinkedRows # {} \/ (experience = "NONE" /\ ~Holds(g, Experience))
          /\ EndTransaction(g)
          /\ UNCHANGED <<experience, row, job>>
       \/ /\ LinkedRows = {}
          /\ experience # "NONE" \/ Holds(g, Experience)
          /\ \E p \in Portfolios :
                /\ job[p] = "unused"
                /\ row' = [row EXCEPT ![p] = "GENERATING"]
                /\ job' = [job EXCEPT ![p] = "new"]
                /\ process' = [process EXCEPT ![g].pc = "delegate", ![g].portfolio = p]
          /\ experience' = IF Holds(g, Experience) THEN "GENERATE" ELSE experience
          /\ Release(g)
    /\ UNCHANGED <<deleted, mishaps>>

\* delegatePortfolioGeneration: accepted, refused, or accepted with the reply lost
\* (the AI server answers after the 30 seconds of the client).
Delegate(g) ==
    LET accept == job' = [job EXCEPT ![process[g].portfolio] = "accepted"] IN
    /\ At(g, "delegate")
    /\ \/ accept /\ Ends(g) /\ UNCHANGED mishaps
       \/ UNCHANGED <<job, mishaps>> /\ Goto(g, "readRow")
       \/ /\ "reply" \notin mishaps
          /\ accept
          /\ mishaps' = mishaps \cup {"reply"}
          /\ Goto(g, "readRow")
    /\ UNCHANGED <<experience, deleted, row, lock>>

\* compensateFailedDelegation: removeGeneratingPortfolio and
\* transitionToGenerateFailed run in one transaction, and their statements alternate.
CompensateReadRow(g) ==
    /\ At(g, "readRow")
    /\ process' = [process EXCEPT ![g].pc = "readExperience",
                                  ![g].loaded = row[process[g].portfolio]]
    /\ UNCHANGED <<experience, deleted, row, job, lock, mishaps>>

\* A row that is gone is an error, which is logged.  The other branch may still
\* reach the experience, or not.
CompensateReadExperience(g) ==
    /\ At(g, "readExperience")
    /\ \/ /\ process[g].loaded # "NONE" /\ experience # "NONE"
          /\ process' = [process EXCEPT ![g].pc = "remove", ![g].status = experience]
          /\ UNCHANGED experience
       \/ /\ process[g].loaded = "NONE" \/ experience = "NONE"
          /\ Ends(g)
          /\ \/ UNCHANGED experience
             \/ /\ experience = "GENERATE" /\ CanWrite(g, Experience)
                /\ experience' = "GENERATE_FAILED"
    /\ UNCHANGED <<deleted, row, job, lock, mishaps>>

\* Mutant: the portfolio is deleted whatever its status.
CompensateRemoveAny(g) ==
    /\ At(g, "remove")
    /\ Acquire(g, process[g].portfolio)
    /\ Goto(g, "fail")
    /\ UNCHANGED <<experience, deleted, row, job, mishaps>>

\* removeGeneratingPortfolio; the row is gone when the transaction commits.
CompensateRemove(g) ==
    /\ At(g, "remove")
    /\ IF process[g].loaded = "GENERATING"
       THEN Acquire(g, process[g].portfolio)
       ELSE UNCHANGED lock
    /\ Goto(g, "fail")
    /\ UNCHANGED <<experience, deleted, row, job, mishaps>>

\* Mutant: the compensation removes the portfolio and leaves the experience.
CompensateFailHalf(g) ==
    LET p == process[g].portfolio IN
    /\ At(g, "fail")
    /\ row' = [row EXCEPT ![p] = IF Holds(g, p) THEN "NONE" ELSE @]
    /\ EndTransaction(g)
    /\ UNCHANGED <<experience, deleted, job, mishaps>>

\* transitionToGenerateFailed, and the commit.
CompensateFail(g) ==
    LET p == process[g].portfolio IN
    /\ At(g, "fail")
    /\ IF process[g].status = "GENERATE"
       THEN CanWrite(g, Experience) /\ experience' = "GENERATE_FAILED"
       ELSE UNCHANGED experience
    /\ row' = [row EXCEPT ![p] = IF Holds(g, p) THEN "NONE" ELSE @]
    /\ EndTransaction(g)
    /\ UNCHANGED <<deleted, job, mishaps>>

-------------------------------------------------------------------------------
(* savePortfolioResult                                                      *)

\* The AI server answers an accepted job with one result, and may repeat it.
ReceiveResult(c) ==
    /\ At(c, "idle")
    /\ \E p \in Portfolios, result \in Results :
        /\ job[p] \in {"accepted", result}
        /\ job' = [job EXCEPT ![p] = result]
        /\ \/ row[p] \in Linked /\ process' = [process EXCEPT ![c] =
                [pc |-> "write", status |-> "NONE", portfolio |-> p, loaded |-> row[p]]]
           \/ row[p] \notin Linked /\ UNCHANGED process
    /\ UNCHANGED <<experience, deleted, row, lock, mishaps>>

\* completeGeneration or failGeneration, of a portfolio that was GENERATING.
WriteResult(c) ==
    /\ At(c, "write")
    /\ IF process[c].loaded = "GENERATING"
       THEN Acquire(c, process[c].portfolio)
       ELSE UNCHANGED lock
    /\ Goto(c, "transition")
    /\ UNCHANGED <<experience, deleted, row, job, mishaps>>

ReadExperience(c) ==
    /\ At(c, "transition")
    /\ \/ experience = "NONE" /\ EndTransaction(c)
       \/ /\ experience # "NONE"
          /\ process' = [process EXCEPT ![c].pc = "commit", ![c].status = experience]
          /\ UNCHANGED lock
    /\ UNCHANGED <<experience, deleted, row, job, mishaps>>

\* Mutant: every result is taken for a success.
SaveTransitionDone(c) ==
    LET p == process[c].portfolio IN
    /\ At(c, "commit")
    /\ IF process[c].status = "GENERATE"
       THEN CanWrite(c, Experience) /\ experience' = "DONE"
       ELSE UNCHANGED experience
    /\ row' = [row EXCEPT ![p] = IF ~Holds(c, p) THEN @
                                 ELSE IF @ = "NONE" THEN "ORPHAN" ELSE job[p]]
    /\ EndTransaction(c)
    /\ UNCHANGED <<deleted, job, mishaps>>

\* Mutant: a failure is written to the portfolio only.
SaveTransitionNotFailed(c) ==
    LET p == process[c].portfolio IN
    /\ At(c, "commit")
    /\ IF process[c].status = "GENERATE" /\ job[p] = "COMPLETED"
       THEN CanWrite(c, Experience) /\ experience' = "DONE"
       ELSE UNCHANGED experience
    /\ row' = [row EXCEPT ![p] = IF ~Holds(c, p) THEN @
                                 ELSE IF @ = "NONE" THEN "ORPHAN" ELSE job[p]]
    /\ EndTransaction(c)
    /\ UNCHANGED <<deleted, job, mishaps>>

\* Mutant: the experience's status is written to the portfolio.
SaveTransitionWrongRow(c) ==
    LET p == process[c].portfolio IN
    /\ At(c, "commit")
    /\ experience' = experience
    /\ row' = [row EXCEPT ![p] = IF Holds(c, p) THEN "DONE" ELSE @]
    /\ EndTransaction(c)
    /\ UNCHANGED <<deleted, job, mishaps>>

\* transitionToDone or transitionToGenerateFailed, and the commit.
SaveTransition(c) ==
    LET p == process[c].portfolio IN
    /\ At(c, "commit")
    /\ IF process[c].status = "GENERATE"
       THEN /\ CanWrite(c, Experience)
            /\ experience' = IF job[p] = "COMPLETED" THEN "DONE" ELSE "GENERATE_FAILED"
       ELSE UNCHANGED experience
    /\ row' = [row EXCEPT ![p] = IF ~Holds(c, p) THEN @
                                 ELSE IF @ = "NONE" THEN "ORPHAN" ELSE job[p]]
    /\ EndTransaction(c)
    /\ UNCHANGED <<deleted, job, mishaps>>

-------------------------------------------------------------------------------
(* The user's edits and the deletion                                        *)

\* updateExperience loads the experience; updatePortfolio loads a portfolio.
LoadForEdit(x) ==
    /\ At(x, "idle")
    /\ \/ /\ experience # "NONE" /\ ~deleted
          /\ process' = [process EXCEPT ![x] = [Idle EXCEPT !.pc = "update", !.status = experience]]
       \/ \E p \in LinkedRows :
            process' = [process EXCEPT ![x] =
                [pc |-> "portfolio", status |-> "NONE", portfolio |-> p, loaded |-> row[p]]]
    /\ UNCHANGED <<experience, deleted, row, job, lock, mishaps>>

\* What x has loaded differs from the committed rows it overwrites.
Stale(x) ==
    \/ process[x].status # "NONE" /\ process[x].status # experience
    \/ process[x].portfolio # NoPortfolio /\ process[x].loaded # row[process[x].portfolio]

\* What commits an edit: a stale one loses somebody's update, and is counted once.
CommitEdit(x) ==
    /\ Stale(x) => "edit" \notin mishaps
    /\ mishaps' = IF Stale(x) THEN mishaps \cup {"edit"} ELSE mishaps
    /\ experience' = IF process[x].status # "NONE" THEN process[x].status ELSE experience
    /\ EndTransaction(x)

\* updateExperience: the new name goes to the portfolio too, if there is one.
SaveExperience(x) ==
    /\ At(x, "update")
    /\ CanWrite(x, Experience)
    /\ \/ LinkedRows = {} /\ CommitEdit(x) /\ UNCHANGED row
       \/ \E p \in LinkedRows :
            /\ Acquire(x, Experience)
            /\ process' = [process EXCEPT ![x].pc = "portfolio", ![x].portfolio = p,
                                          ![x].loaded = row[p]]
            /\ UNCHANGED <<experience, row, mishaps>>
    /\ UNCHANGED <<deleted, job>>

\* updateExperience ends here, with the entity loaded without its relations, and
\* updatePortfolio, whose entity keeps the experience: it is inserted again unless
\* the experience is gone or has another portfolio.
SavePortfolio(x) ==
    LET p == process[x].portfolio
        relinked == ~Holds(x, Experience)
    IN
    /\ At(x, "portfolio")
    /\ \A r \in {p} \cup (IF row[p] = "NONE" /\ relinked THEN LinkedRows ELSE {}) : CanWrite(x, r)
    /\ \/ /\ row[p] = "NONE" /\ relinked
          /\ experience = "NONE" \/ LinkedRows # {}
          /\ EndTransaction(x)
          /\ UNCHANGED <<experience, row, mishaps>>
       \/ /\ row[p] # "NONE" \/ ~relinked \/ (experience # "NONE" /\ LinkedRows = {})
          /\ row' = [row EXCEPT ![p] =
                        IF @ = "NONE" /\ ~relinked THEN "ORPHAN" ELSE process[x].loaded]
          /\ CommitEdit(x)
    /\ UNCHANGED <<deleted, job>>

\* deleteExperience: the portfolio goes with it (ON DELETE CASCADE).
DeleteExperience ==
    /\ experience # "NONE" /\ ~deleted
    /\ \A r \in {Experience} \cup LinkedRows : lock[r] = Free
    /\ experience' = "NONE"
    /\ deleted' = TRUE
    /\ row' = [p \in Portfolios |-> IF p \in LinkedRows THEN "NONE" ELSE row[p]]
    /\ UNCHANGED <<job, lock, process, mishaps>>

-------------------------------------------------------------------------------
\* x waits for the portfolio, which q has written, and q for the experience, which
\* x has written; PostgreSQL rolls one of them back.
Deadlock(x, q) ==
    /\ At(x, "portfolio")
    /\ Holds(x, Experience)
    /\ Holds(q, process[x].portfolio)
    /\ At(q, "commit") \/ At(q, "fail")
    /\ process[q].status = "GENERATE"
    /\ "edit" \notin mishaps
    /\ mishaps' = mishaps \cup {"edit"}
    /\ EndTransaction(x) \/ EndTransaction(q)
    /\ UNCHANGED <<experience, deleted, row, job>>

Crash(q) ==
    /\ ~At(q, "idle")
    /\ "crash" \notin mishaps
    /\ mishaps' = mishaps \cup {"crash"}
    /\ EndTransaction(q)
    /\ UNCHANGED <<experience, deleted, row, job>>

GenerateStep(g) ==
    \/ LoadExperience(g)
    \/ TransitionToGenerate(g)
    \/ InsertPortfolio(g)
    \/ Delegate(g)
    \/ CompensateReadRow(g)
    \/ CompensateReadExperience(g)
    \/ CompensateRemove(g)
    \/ CompensateFail(g)

CallbackStep(c) ==
    \/ ReceiveResult(c)
    \/ WriteResult(c)
    \/ ReadExperience(c)
    \/ SaveTransition(c)

EditStep(x) ==
    \/ LoadForEdit(x)
    \/ SaveExperience(x)
    \/ SavePortfolio(x)

GenerationNext ==
    \/ \E g \in Generators : GenerateStep(g)
    \/ \E c \in Callbacks : CallbackStep(c)
    \/ \E x \in Edits : EditStep(x)
    \/ DeleteExperience
    \/ \E x \in Edits, q \in Processes : Deadlock(x, q)
    \/ \E q \in Processes : Crash(q)

GenerationSpec == GenerationInit /\ [][GenerationNext]_vars

\* A live server finishes what it has started, and the AI server answers the jobs it
\* has accepted.  A statement that waits for a row gets it in the end.
GenerationFairness ==
    /\ \A g \in Generators :
        /\ WF_vars(TransitionToGenerate(g) \/ Delegate(g) \/ CompensateReadRow(g))
        /\ WF_vars(CompensateReadExperience(g))
        /\ SF_vars(InsertPortfolio(g) \/ CompensateRemove(g) \/ CompensateFail(g))
    /\ \A c \in Callbacks :
        /\ WF_vars(ReadExperience(c))
        /\ SF_vars(WriteResult(c) \/ SaveTransition(c))
    /\ \A x \in Edits :
        /\ SF_vars(SaveExperience(x) \/ SavePortfolio(x))
        /\ WF_vars(\E q \in Processes : Deadlock(x, q))
    /\ \A p \in Portfolios :
        SF_vars(job[p] = "accepted" /\ \E c \in Callbacks : ReceiveResult(c) /\ job'[p] \in Results)

FairGenerationSpec == GenerationSpec /\ GenerationFairness

-------------------------------------------------------------------------------
\* An experience that is DONE has its COMPLETED portfolio, whatever a crash, a
\* concurrent request or a deletion has interrupted (a lost reply or a lost update
\* aside): savePortfolioResult writes both rows or neither, and a generation that
\* starts from a stale entity never leaves a DONE experience without its portfolio.
DoneHasPortfolio ==
    experience = "DONE" /\ ~deleted /\ mishaps \cap {"reply", "edit"} = {}
        => \E p \in Portfolios : row[p] = "COMPLETED"

InFlight(p) == job[p] = "accepted" \/ \E q \in Processes : process[q].portfolio = p

\* An experience is in GENERATE only while somebody is about to take it out: the AI
\* server works for a portfolio that is GENERATING, or a request still holds one.
\* A compensation or a callback that stopped halfway would break it.
GenerateHasOwner ==
    experience = "GENERATE" /\ ~deleted /\ mishaps = {}
        => \E p \in Portfolios : row[p] = "GENERATING" /\ InFlight(p)

\* What the AI server has written for a user is not taken back: only the user's
\* deletion, or a request that had read the portfolio before it was completed, ends
\* a completed one.  Repeated callbacks, and compensations and edits that read the
\* result, keep it.
ResultIsKept ==
    [][\A p \in Portfolios :
        row[p] = "COMPLETED" /\ row'[p] # "COMPLETED"
            => deleted' \/ \E q \in Processes :
                    process[q].portfolio = p /\ process[q].loaded = "GENERATING"]_vars

\* A generation that has to end: no server crashed and nothing was lost.
GenerationRuns == experience = "GENERATE" /\ mishaps = {}

\* An edit changes the title and the wanted job of an experience, as its endpoint says
\* (experience.controller.ts:87), and so never where its generation stands.
EditKeepsStatus ==
    [][\A x \in Edits : EditStep(x) /\ ~deleted => experience' = experience]_vars
=============================================================================
