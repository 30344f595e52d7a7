--------------------------- MODULE GenerationProofs ---------------------------
(***************************************************************************)
(* The generation of a portfolio, for any number of generators, callbacks  *)
(* and edits: its state is well formed, a DONE experience has its          *)
(* portfolio, an experience in GENERATE has somebody to take it out, and   *)
(* no result is taken back.                                                *)
(*                                                                         *)
(* The inductive invariant follows one portfolio through its life: its job *)
(* says what has become of it, a process that carries it knows what the    *)
(* job is, and a row that is written is locked by who has read it          *)
(* GENERATING.                                                             *)
(***************************************************************************)
EXTENDS PortfolioGeneration, TLAPS

\* The steps of a generator that has inserted its portfolio, of a callback and of an
\* edit that have read one.
Carries == {"delegate", "readRow", "readExperience", "remove", "fail"}
Reports == {"write", "transition", "commit"}

Carrying(g) == process[g].pc \in Carries
Reporting(c) == process[c].pc \in Reports

\* Who is at which step, with which portfolio, and what its job is.
ProcessInv ==
    /\ \A g \in Generators :
        /\ process[g].pc \in {"idle", "session", "insert"} \cup Carries
        /\ Carrying(g) =>
            /\ process[g].portfolio \in Portfolios
            /\ job[process[g].portfolio] # "unused"
            /\ process[g].pc = "delegate" \/ "reply" \notin mishaps
                    => job[process[g].portfolio] = "new"
    /\ \A g, h \in Generators : g # h /\ Carrying(g) /\ Carrying(h)
            => process[g].portfolio # process[h].portfolio
    /\ \A c \in Callbacks :
        /\ process[c].pc \in {"idle"} \cup Reports
        /\ Reporting(c) => process[c].portfolio \in Portfolios /\ job[process[c].portfolio] \in Results
    /\ \A x \in Edits : process[x].pc \in {"idle", "update", "portfolio"}
    /\ \A q \in Callbacks \cup Edits : process[q].pc \in Reports \cup {"portfolio"} =>
        /\ process[q].portfolio \in Portfolios
        /\ job[process[q].portfolio] # "unused"
        /\ process[q].loaded \in Linked
        /\ process[q].loaded \in Results => job[process[q].portfolio] = process[q].loaded

\* A row has the result its job has, and nobody's job has no row.
RowInv ==
    \A p \in Portfolios :
        /\ job[p] = "unused" => row[p] = "NONE"
        /\ row[p] \in Results => job[p] = row[p]

\* A portfolio is locked by who has read it GENERATING and has written it.
LockInv ==
    /\ \A p \in Portfolios : lock[p] # Free =>
        /\ process[lock[p]].pc \in {"fail", "transition", "commit"}
        /\ process[lock[p]].portfolio = p
        /\ process[lock[p]].loaded = "GENERATING"
    /\ \A c \in Callbacks :
        process[c].pc \in {"transition", "commit"} /\ process[c].loaded = "GENERATING"
            => lock[process[c].portfolio] = c

\* Somebody who is not an edit will take the portfolio out of GENERATING.
Owned(p) ==
    \/ job[p] = "accepted"
    \/ \E g \in Generators : Carrying(g) /\ process[g].portfolio = p
    \/ \E c \in Callbacks : Reporting(c) /\ process[c].portfolio = p

\* With no reply and no update lost, a portfolio is there while somebody carries it, so
\* that no second generation starts and both rows change together.
OwnerInv ==
    mishaps \cap {"reply", "edit"} = {} /\ ~deleted =>
        /\ \A c \in Callbacks : Reporting(c) =>
            /\ row[process[c].portfolio] \in Linked
            /\ process[c].loaded \in Results => row[process[c].portfolio] = process[c].loaded
        /\ \A g \in Generators : Carrying(g) =>
            /\ row[process[g].portfolio] = "GENERATING"
            /\ process[g].pc \in {"readExperience", "remove", "fail"} => process[g].loaded = "GENERATING"
        /\ \A q \in Processes : process[q].pc \in {"remove", "fail", "commit"} /\ experience = "GENERATE"
                => process[q].status = "GENERATE"
        /\ experience = "GENERATE" /\ "crash" \notin mishaps
                => \E p \in Portfolios : row[p] = "GENERATING" /\ Owned(p)

GenerationInv ==
    GenerationTypeOK /\ ProcessInv /\ RowInv /\ LockInv /\ OwnerInv /\ DoneHasPortfolio

ProcessRow ==
    [pc : Steps, status : ExperienceStatus \cup {"NONE"},
     portfolio : Portfolios \cup {NoPortfolio}, loaded : PortfolioStatus]
LockTable == [Portfolios \cup {Experience} -> Processes \cup {Free}]
Mishaps == {"crash", "reply", "edit"}

-------------------------------------------------------------------------------
LEMMA GenerationInvInit == GenerationInit => GenerationInv
<1> SUFFICES ASSUME GenerationInit PROVE GenerationInv
  OBVIOUS
<1> USE DEF GenerationInit
<1>1. GenerationTypeOK
  BY DEF GenerationTypeOK, ExperienceStatus, PortfolioStatus, JobState, Idle, Steps
<1>2. ProcessInv /\ RowInv /\ LockInv
  BY DEF ProcessInv, RowInv, LockInv, Idle, Carrying, Carries, Reporting, Reports, Processes, Results
<1>3. OwnerInv /\ DoneHasPortfolio
  BY DEF OwnerInv, DoneHasPortfolio, Idle, Carrying, Carries, Reporting, Reports, Processes
<1> QED BY <1>1, <1>2, <1>3 DEF GenerationInv

\* A step that reads: it changes where one process is and what it has loaded, and perhaps
\* what the process has locked.
LEMMA ProcessMoves ==
    ASSUME GenerationInv, NEW q \in Processes, NEW new \in ProcessRow,
           process' = [process EXCEPT ![q] = new],
           UNCHANGED <<experience, deleted, row, job>>,
           mishaps \subseteq mishaps', mishaps' \subseteq Mishaps,
           lock' \in LockTable, LockInv',
           q \in Generators =>
                \/ new.pc \in {"idle", "session", "insert"}
                \/ /\ new.pc \in Carries \ {"delegate"} /\ Carrying(q)
                   /\ new.portfolio = process[q].portfolio
                   /\ new.pc \in {"readExperience", "remove", "fail"} =>
                        \/ new.loaded = row[new.portfolio]
                        \/ process[q].pc \in {"readExperience", "remove"} /\ new.loaded = process[q].loaded,
           q \in Callbacks =>
                \/ new.pc = "idle"
                \/ /\ new.pc \in Reports /\ Reporting(q)
                   /\ new.portfolio = process[q].portfolio /\ new.loaded = process[q].loaded,
           q \in Edits =>
                \/ new.pc \in {"idle", "update"}
                \/ /\ new.pc = "portfolio" /\ new.portfolio \in Portfolios
                   /\ new.loaded \in Linked /\ new.loaded = row[new.portfolio],
           new.pc \in {"remove", "fail", "commit"} =>
                \/ new.status = experience
                \/ process[q].pc \in {"remove", "fail", "commit"} /\ new.status = process[q].status,
           (Carrying(q) \/ Reporting(q)) /\ new.pc \notin Carries \cup Reports
                => mishaps' # {} \/ deleted \/ experience # "GENERATE"
    PROVE  GenerationInv'
<1> USE GenerationConstants DEF GenerationInv
<1>1. GenerationTypeOK'
  BY DEF GenerationTypeOK, ProcessRow, LockTable, Mishaps
<1>2. ProcessInv'
  <2>1. /\ q \notin Generators \/ q \notin Callbacks
        /\ q \notin Generators \/ q \notin Edits
        /\ q \notin Callbacks \/ q \notin Edits
        /\ process \in [Processes -> ProcessRow]
    BY DEF GenerationTypeOK, ProcessRow
  <2>2. \A z \in Processes : process'[z] = IF z = q THEN new ELSE process[z]
    BY <2>1
  <2>3. \A z \in Generators \cup Callbacks \cup Edits : z \in Processes
    BY DEF Processes
  <2> QED BY <2>1, <2>2, <2>3 DEF ProcessInv, Carrying, Carries, Reporting, Reports, RowInv, Linked, Results
<1>3. RowInv'
  BY DEF RowInv
<1>4. DoneHasPortfolio'
  BY DEF DoneHasPortfolio
<1>5. OwnerInv'
  <2> SUFFICES ASSUME mishaps' \cap {"reply", "edit"} = {}, ~deleted PROVE OwnerInv'
    BY DEF OwnerInv
  <2>1. /\ q \notin Generators \/ q \notin Callbacks
        /\ q \notin Generators \/ q \notin Edits
        /\ q \notin Callbacks \/ q \notin Edits
        /\ \A z \in Processes : process'[z] = IF z = q THEN new ELSE process[z]
        /\ \A z \in Generators \cup Callbacks \cup Edits : z \in Processes
        /\ mishaps \cap {"reply", "edit"} = {}
    BY DEF GenerationTypeOK, Processes
  <2>2. ASSUME NEW c \in Callbacks, Reporting(c)'
        PROVE  /\ Reporting(c) /\ process'[c].portfolio = process[c].portfolio
               /\ process'[c].loaded = process[c].loaded
    BY <2>1, <2>2 DEF Reporting, Reports
  <2>3. ASSUME NEW g \in Generators, Carrying(g)'
        PROVE  /\ Carrying(g) /\ process'[g].portfolio = process[g].portfolio
               /\ process'[g].pc \in {"readExperience", "remove", "fail"} => process'[g].loaded = "GENERATING"
    BY <2>1, <2>3 DEF Carrying, Carries, OwnerInv
  <2>4. ASSUME NEW z \in Processes, process'[z].pc \in {"remove", "fail", "commit"}, experience = "GENERATE"
        PROVE  process'[z].status = "GENERATE"
    BY <2>1, <2>4 DEF OwnerInv
  <2>5. ASSUME experience = "GENERATE", "crash" \notin mishaps'
        PROVE  \E p \in Portfolios : row[p] = "GENERATING" /\ Owned(p)'
    <3>1. PICK p \in Portfolios : row[p] = "GENERATING" /\ Owned(p)
      BY <2>1, <2>5 DEF OwnerInv
    <3>2. mishaps' = {}
      BY <2>5 DEF Mishaps
    <3>3. ASSUME NEW g \in Generators, Carrying(g) PROVE Carrying(g)' /\ process'[g].portfolio = process[g].portfolio
      BY <2>1, <2>5, <3>2, <3>3 DEF Carrying, Carries, Reports
    <3>4. ASSUME NEW c \in Callbacks, Reporting(c) PROVE Reporting(c)' /\ process'[c].portfolio = process[c].portfolio
      BY <2>1, <2>5, <3>2, <3>4 DEF Reporting, Carries, Reports
    <3>5. Owned(p)'
      BY <3>1, <3>3, <3>4 DEF Owned
    <3> QED BY <3>1, <3>5
  <2> QED BY <2>2, <2>3, <2>4, <2>5 DEF OwnerInv
<1> QED BY <1>1, <1>2, <1>3, <1>4, <1>5

\* The locks: kept, taken on the portfolio that was read GENERATING, or released.
LEMMA LockKept ==
    ASSUME GenerationInv, NEW q \in Processes, NEW new \in ProcessRow,
           process' = [process EXCEPT ![q] = new],
           \A p \in Portfolios : lock'[p] = lock[p],
           process[q].pc \in {"fail", "transition", "commit"} =>
                /\ new.pc \in {"fail", "transition", "commit"}
                /\ new.portfolio = process[q].portfolio /\ new.loaded = process[q].loaded,
           new.pc \in {"transition", "commit"} /\ new.loaded = "GENERATING" =>
                process[q].pc \in {"transition", "commit"}
    PROVE  LockInv'
<1>1. \A z \in Processes : process'[z] = IF z = q THEN new ELSE process[z]
  BY DEF GenerationInv, GenerationTypeOK
<1>2. /\ \A p \in Portfolios : lock[p] \in Processes \cup {Free}
      /\ \A c \in Callbacks : c \in Processes /\ (Reporting(c) => process[c].portfolio \in Portfolios)
  BY DEF GenerationInv, GenerationTypeOK, ProcessInv, Processes
<1> QED BY <1>1, <1>2 DEF GenerationInv, LockInv, Reporting, Reports

LEMMA LockTaken ==
    ASSUME GenerationInv, NEW q \in Processes, NEW new \in ProcessRow,
           process' = [process EXCEPT ![q] = new],
           process[q].portfolio \in Portfolios,
           Acquire(q, process[q].portfolio),
           new.pc \in {"fail", "transition"},
           process[q].pc \notin {"fail", "transition", "commit"},
           new.portfolio = process[q].portfolio, new.loaded = "GENERATING"
    PROVE  LockInv' /\ lock' \in LockTable
<1>1. \A z \in Processes : process'[z] = IF z = q THEN new ELSE process[z]
  BY DEF GenerationInv, GenerationTypeOK
<1>2. /\ \A p \in Portfolios : lock[p] \in Processes \cup {Free}
      /\ \A p \in Portfolios : lock'[p] = IF p = process[q].portfolio THEN q ELSE lock[p]
      /\ lock[process[q].portfolio] \in {q, Free}
      /\ lock' \in LockTable
      /\ \A c \in Callbacks : c \in Processes /\ (Reporting(c) => process[c].portfolio \in Portfolios)
  BY DEF GenerationInv, GenerationTypeOK, Acquire, CanWrite, LockTable, ProcessInv, Processes
<1> QED BY <1>1, <1>2, GenerationConstants DEF GenerationInv, LockInv, Reporting, Reports

LEMMA LockReleased ==
    ASSUME GenerationInv, NEW q \in Processes, Release(q), NEW new \in ProcessRow,
           process' = [process EXCEPT ![q] = new], new.pc \in {"idle", "delegate"}
    PROVE  LockInv' /\ lock' \in LockTable
<1> USE GenerationConstants
<1>1. \A z \in Processes : process'[z] = IF z = q THEN new ELSE process[z]
  BY DEF GenerationInv, GenerationTypeOK
<1>2. /\ lock \in LockTable
      /\ lock' = [r \in Portfolios \cup {Experience} |-> IF lock[r] = q THEN Free ELSE lock[r]]
  BY DEF GenerationInv, GenerationTypeOK, Release, LockTable
<1>3. /\ \A p \in Portfolios : lock[p] \in Processes \cup {Free}
      /\ \A p \in Portfolios : lock'[p] = IF lock[p] = q THEN Free ELSE lock[p]
      /\ lock' \in LockTable
  BY <1>2 DEF LockTable
<1>4. \A c \in Callbacks : c \in Processes /\ (Reporting(c) => process[c].portfolio \in Portfolios)
  BY DEF GenerationInv, ProcessInv, Processes
<1> QED BY <1>1, <1>3, <1>4 DEF GenerationInv, LockInv, Reporting, Reports

LEMMA IdleRow == Idle \in ProcessRow /\ Idle.pc = "idle"
BY DEF Idle, ProcessRow, Steps, PortfolioStatus

\* A request that ends changes nothing but its locks: an error, a crash, a deadlock.
LEMMA EndKeeps ==
    ASSUME GenerationInv, NEW q \in Processes, EndTransaction(q),
           UNCHANGED <<experience, deleted, row, job>>,
           mishaps \subseteq mishaps', mishaps' \subseteq Mishaps,
           Carrying(q) \/ Reporting(q) => mishaps' # {} \/ deleted \/ experience # "GENERATE"
    PROVE  GenerationInv'
<1>1. process' = [process EXCEPT ![q] = Idle] /\ Release(q)
  BY DEF EndTransaction, Ends
<1>2. LockInv' /\ lock' \in LockTable
  BY <1>1, IdleRow, LockReleased
<1> QED BY <1>1, <1>2, IdleRow, ProcessMoves

LEMMA ProcessFacts ==
    ASSUME GenerationInv
    PROVE  /\ process \in [Processes -> ProcessRow]
           /\ lock \in LockTable
           /\ mishaps \subseteq Mishaps
           /\ Generators \subseteq Processes /\ Callbacks \subseteq Processes /\ Edits \subseteq Processes
           /\ experience \in ExperienceStatus \cup {"NONE"}
           /\ row \in [Portfolios -> PortfolioStatus]
           /\ job \in [Portfolios -> JobState]
BY DEF GenerationInv, GenerationTypeOK, ProcessRow, LockTable, Mishaps, Processes

\* Going on to another step of the same request.
LEMMA NextRow ==
    ASSUME GenerationInv, NEW q \in Processes, NEW pc \in Steps
    PROVE  LET new == [process[q] EXCEPT !.pc = pc] IN
            /\ new \in ProcessRow /\ new.pc = pc
            /\ new.portfolio = process[q].portfolio /\ new.loaded = process[q].loaded
            /\ new.status = process[q].status
            /\ [process EXCEPT ![q].pc = pc] = [process EXCEPT ![q] = new]
<1>1. process[q] \in ProcessRow /\ process \in [Processes -> ProcessRow]
  BY ProcessFacts
<1> QED BY <1>1 DEF ProcessRow

\* Until the portfolio is inserted a generator only reads and locks the experience.
LEMMA BeforeInsertKeeps ==
    ASSUME GenerationInv, NEW g \in Generators, LoadExperience(g) \/ TransitionToGenerate(g)
    PROVE  GenerationInv'
<1> USE ProcessFacts, GenerationConstants
<1>1. /\ g \notin Callbacks /\ g \notin Edits /\ g \in Processes
      /\ process[g].pc \in {"idle", "session"}
      /\ UNCHANGED <<experience, deleted, row, job, mishaps>>
  BY DEF LoadExperience, TransitionToGenerate, At
<1>2. PICK new \in ProcessRow :
        process' = [process EXCEPT ![g] = new] /\ new.pc \in {"idle", "session", "insert"}
  <2>1. CASE LoadExperience(g)
    <3> DEFINE new == [Idle EXCEPT !.pc = "session", !.status = experience]
    <3>1. new \in ProcessRow /\ new.pc = "session"
      BY DEF Idle, ProcessRow, Steps, PortfolioStatus
    <3>2. process' = [process EXCEPT ![g] = new]
      BY <2>1 DEF LoadExperience
    <3> QED BY <3>1, <3>2
  <2>2. CASE TransitionToGenerate(g) /\ Ends(g)
    BY <2>2, IdleRow DEF Ends
  <2>3. CASE TransitionToGenerate(g) /\ Goto(g, "insert")
    <3> DEFINE new == [process[g] EXCEPT !.pc = "insert"]
    <3>1. "insert" \in Steps
      BY DEF Steps
    <3>2. new \in ProcessRow /\ new.pc = "insert" /\ process' = [process EXCEPT ![g] = new]
      BY <1>1, <2>3, <3>1, NextRow DEF Goto
    <3> HIDE DEF new
    <3> QED BY <3>2
  <2> QED BY <2>1, <2>2, <2>3 DEF TransitionToGenerate
<1>3. lock' \in LockTable /\ \A p \in Portfolios : lock'[p] = lock[p]
  BY DEF LoadExperience, TransitionToGenerate, Acquire, LockTable
<1>4. LockInv'
  BY <1>1, <1>2, <1>3, LockKept
<1> QED BY <1>1, <1>2, <1>3, <1>4, ProcessMoves DEF Carrying, Carries, Reporting, Reports

\* The compensation reads a portfolio that is still GENERATING, unless a reply was lost.
LEMMA CompensationReadsKeep ==
    ASSUME GenerationInv, NEW g \in Generators, CompensateReadRow(g) \/ CompensateRemove(g)
    PROVE  GenerationInv'
<1> USE ProcessFacts, GenerationConstants
<1>1. /\ g \notin Callbacks /\ g \notin Edits /\ g \in Processes
      /\ process[g].pc \in {"readRow", "remove"} /\ Carrying(g)
      /\ process[g].portfolio \in Portfolios
      /\ UNCHANGED <<experience, deleted, row, job, mishaps>>
  BY DEF CompensateReadRow, CompensateRemove, At, Carrying, Carries, GenerationInv, ProcessInv
<1>2. CASE CompensateReadRow(g)
  <2> DEFINE new == [process[g] EXCEPT !.pc = "readExperience", !.loaded = row[process[g].portfolio]]
  <2>1. /\ new \in ProcessRow /\ new.pc = "readExperience" /\ new.portfolio = process[g].portfolio
        /\ new.loaded = row[new.portfolio]
        /\ process' = [process EXCEPT ![g] = new]
    <3>1. process[g] \in ProcessRow /\ row[process[g].portfolio] \in PortfolioStatus
      BY <1>1
    <3>2. /\ new \in ProcessRow /\ new.pc = "readExperience" /\ new.portfolio = process[g].portfolio
          /\ new.loaded = row[new.portfolio]
      BY <3>1 DEF ProcessRow, Steps
    <3>3. process' = [process EXCEPT ![g] = new]
      BY <1>1, <1>2, <3>1 DEF CompensateReadRow, ProcessRow
    <3> QED BY <3>2, <3>3
  <2> HIDE DEF new
  <2>2. lock' = lock /\ process[g].pc = "readRow"
    BY <1>2 DEF CompensateReadRow, At
  <2>3. LockInv'
    BY <1>1, <2>1, <2>2, LockKept
  <2> QED BY <1>1, <2>1, <2>2, <2>3, ProcessMoves DEF Carries, Reports
<1>3. CASE CompensateRemove(g)
  <2>1. PICK new \in ProcessRow :
            /\ new.pc = "fail" /\ new.portfolio = process[g].portfolio
            /\ new.loaded = process[g].loaded /\ new.status = process[g].status
            /\ process' = [process EXCEPT ![g] = new]
    BY <1>1, <1>3, NextRow DEF CompensateRemove, Goto, Steps
  <2>2. process[g].pc = "remove"
    BY <1>3 DEF CompensateRemove, At
  <2>3. LockInv' /\ lock' \in LockTable
    <3>1. CASE process[g].loaded = "GENERATING"
      BY <1>1, <1>3, <2>1, <2>2, <3>1, LockTaken DEF CompensateRemove
    <3>2. CASE process[g].loaded # "GENERATING"
      <4>1. lock' = lock
        BY <1>3, <3>2 DEF CompensateRemove
      <4> QED BY <1>1, <2>1, <2>2, <4>1, LockKept
    <3> QED BY <3>1, <3>2
  <2> QED BY <1>1, <2>1, <2>2, <2>3, ProcessMoves DEF Carries, Reports
<1> QED BY <1>2, <1>3

\* A callback reads, and locks what it has read GENERATING.
LEMMA CallbackReadsKeep ==
    ASSUME GenerationInv, NEW c \in Callbacks, WriteResult(c) \/ ReadExperience(c)
    PROVE  GenerationInv'
<1> USE ProcessFacts, GenerationConstants
<1>1. /\ c \notin Generators /\ c \notin Edits /\ c \in Processes
      /\ process[c].pc \in {"write", "transition"} /\ Reporting(c)
      /\ process[c].portfolio \in Portfolios
      /\ UNCHANGED <<experience, deleted, row, job, mishaps>>
  BY DEF WriteResult, ReadExperience, At, Reporting, Reports, GenerationInv, ProcessInv
<1>2. CASE WriteResult(c)
  <2>1. PICK new \in ProcessRow :
            /\ new.pc = "transition" /\ new.portfolio = process[c].portfolio
            /\ new.loaded = process[c].loaded
            /\ process' = [process EXCEPT ![c] = new]
    BY <1>1, <1>2, NextRow DEF WriteResult, Goto, Steps
  <2>2. process[c].pc = "write"
    BY <1>2 DEF WriteResult, At
  <2>3. LockInv' /\ lock' \in LockTable
    <3>1. CASE process[c].loaded = "GENERATING"
      BY <1>1, <1>2, <2>1, <2>2, <3>1, LockTaken DEF WriteResult
    <3>2. CASE process[c].loaded # "GENERATING"
      <4>1. lock' = lock
        BY <1>2, <3>2 DEF WriteResult
      <4> QED BY <1>1, <2>1, <2>2, <3>2, <4>1, LockKept
    <3> QED BY <3>1, <3>2
  <2> QED BY <1>1, <2>1, <2>2, <2>3, ProcessMoves DEF Carries, Reports
<1>3. CASE ReadExperience(c) /\ experience = "NONE"
  BY <1>1, <1>3, EndKeeps DEF ReadExperience
<1>4. CASE ReadExperience(c) /\ experience # "NONE"
  <2> DEFINE new == [process[c] EXCEPT !.pc = "commit", !.status = experience]
  <2>1. /\ new \in ProcessRow /\ new.pc = "commit" /\ new.portfolio = process[c].portfolio
        /\ new.loaded = process[c].loaded /\ new.status = experience
    <3>1. process[c] \in ProcessRow
      BY <1>1
    <3> QED BY <3>1 DEF ProcessRow, Steps
  <2>0. process' = [process EXCEPT ![c] = new]
    <3>1. process' = [process EXCEPT ![c].pc = "commit", ![c].status = experience]
      BY <1>4 DEF ReadExperience
    <3> QED BY <1>1, <3>1
  <2> HIDE DEF new
  <2>2. lock' = lock /\ process[c].pc = "transition"
    BY <1>4 DEF ReadExperience, At
  <2>3. LockInv'
    BY <1>1, <2>0, <2>1, <2>2, LockKept
  <2> QED BY <1>1, <2>0, <2>1, <2>2, <2>3, ProcessMoves DEF Carries, Reports
<1> QED BY <1>2, <1>3, <1>4

\* Crashes and deadlocks.
LEMMA AbortKeeps ==
    ASSUME GenerationInv, (\E q \in Processes : Crash(q)) \/ (\E x \in Edits, q \in Processes : Deadlock(x, q))
    PROVE  GenerationInv'
<1>1. PICK q \in Processes : EndTransaction(q)
  BY ProcessFacts DEF Crash, Deadlock
<1>2. /\ UNCHANGED <<experience, deleted, row, job>>
      /\ mishaps \subseteq mishaps' /\ mishaps' \subseteq Mishaps /\ mishaps' # {}
  BY ProcessFacts DEF Crash, Deadlock, Mishaps
<1> QED BY <1>1, <1>2, EndKeeps

\* The AI server is asked: the portfolio is its job from now on.
LEMMA DelegateKeeps ==
    ASSUME GenerationInv, NEW g \in Generators, Delegate(g)
    PROVE  GenerationInv'
<1> USE ProcessFacts, GenerationConstants
<1> DEFINE p == process[g].portfolio
<1>1. /\ g \notin Callbacks /\ g \notin Edits /\ g \in Processes
      /\ process[g].pc = "delegate" /\ Carrying(g)
      /\ p \in Portfolios /\ job[p] = "new"
      /\ UNCHANGED <<experience, deleted, row, lock>>
  BY DEF Delegate, At, Carrying, Carries, GenerationInv, ProcessInv
<1>2. CASE Goto(g, "readRow") /\ UNCHANGED <<job, mishaps>>
  <2>1. PICK new \in ProcessRow :
            /\ new.pc = "readRow" /\ new.portfolio = p
            /\ process' = [process EXCEPT ![g] = new]
    BY <1>1, <1>2, NextRow DEF Goto, Steps
  <2>2. LockInv'
    BY <1>1, <2>1, LockKept
  <2> QED BY <1>1, <1>2, <2>1, <2>2, ProcessMoves DEF Carries, Reports
<1>3. ASSUME NEW new \in ProcessRow, process' = [process EXCEPT ![g] = new],
             job' = [job EXCEPT ![p] = "accepted"],
             \/ new.pc = "idle" /\ mishaps' = mishaps
             \/ new.pc = "readRow" /\ new.portfolio = p /\ mishaps' = mishaps \cup {"reply"}
      PROVE  GenerationInv'
  <2>1. \A z \in Processes : process'[z] = IF z = g THEN new ELSE process[z]
    BY <1>3
  <2>2. LockInv'
    BY <1>1, <1>3, LockKept
  <2>3. GenerationTypeOK'
    BY <1>1, <1>3 DEF GenerationInv, GenerationTypeOK, ProcessRow, JobState, Mishaps
  <2>4. ProcessInv'
    BY <1>1, <1>3, <2>1 DEF GenerationInv, ProcessInv, Carrying, Carries, Reporting, Reports, Results
  <2>5. RowInv' /\ DoneHasPortfolio'
    <3>1. \A z \in Portfolios : job'[z] = IF z = p THEN "accepted" ELSE job[z]
      BY <1>3
    <3>2. RowInv'
      <4> SUFFICES ASSUME NEW z \in Portfolios
                   PROVE  /\ job'[z] = "unused" => row[z] = "NONE"
                          /\ row[z] \in Results => job'[z] = row[z]
        BY <1>1 DEF RowInv
      <4> QED BY <1>1, <3>1 DEF GenerationInv, RowInv, Results
    <3>3. mishaps \subseteq mishaps'
      BY <1>3
    <3> QED BY <1>1, <3>2, <3>3 DEF GenerationInv, DoneHasPortfolio
  <2>6. OwnerInv'
    <3> SUFFICES ASSUME mishaps' \cap {"reply", "edit"} = {}, ~deleted PROVE OwnerInv'
      BY <1>1 DEF OwnerInv
    <3>1. new.pc = "idle" /\ mishaps' = mishaps /\ OwnerInv
      BY <1>3 DEF GenerationInv
    <3>2. \A z \in Processes : process'[z].pc # "idle" => z # g /\ process'[z] = process[z]
      BY <2>1, <3>1
    <3>3. \A z \in Portfolios : Owned(z) => Owned(z)'
      BY <1>1, <1>3, <2>1 DEF Owned, Carrying, Reporting
    <3> QED BY <1>1, <3>1, <3>2, <3>3 DEF OwnerInv, Carrying, Carries, Reporting, Reports
  <2> QED BY <2>2, <2>3, <2>4, <2>5, <2>6 DEF GenerationInv
<1>4. CASE Ends(g) /\ job' = [job EXCEPT ![p] = "accepted"] /\ UNCHANGED mishaps
  BY <1>3, <1>4, IdleRow DEF Ends
<1>5. CASE Goto(g, "readRow") /\ job' = [job EXCEPT ![p] = "accepted"] /\ mishaps' = mishaps \cup {"reply"}
  <2>1. PICK new \in ProcessRow :
            /\ new.pc = "readRow" /\ new.portfolio = p
            /\ process' = [process EXCEPT ![g] = new]
    BY <1>1, <1>5, NextRow DEF Goto, Steps
  <2> QED BY <1>3, <1>5, <2>1
<1> QED BY <1>2, <1>4, <1>5 DEF Delegate

\* A result arrives, for a portfolio that is there or not.
LEMMA ReceiveKeeps ==
    ASSUME GenerationInv, NEW c \in Callbacks, ReceiveResult(c)
    PROVE  GenerationInv'
<1> USE ProcessFacts, GenerationConstants
<1>1. PICK p \in Portfolios, result \in Results :
        /\ job[p] \in {"accepted", result}
        /\ job' = [job EXCEPT ![p] = result]
        /\ \/ row[p] \in Linked /\ process' = [process EXCEPT ![c] =
                [pc |-> "write", status |-> "NONE", portfolio |-> p, loaded |-> row[p]]]
           \/ row[p] \notin Linked /\ UNCHANGED process
  BY DEF ReceiveResult
<1>2. /\ c \notin Generators /\ c \notin Edits /\ c \in Processes
      /\ process[c].pc = "idle"
      /\ UNCHANGED <<experience, deleted, row, lock, mishaps>>
  BY DEF ReceiveResult, At
<1>3. PICK new \in ProcessRow :
        /\ process' = [process EXCEPT ![c] = new]
        /\ \/ row[p] \notin Linked /\ new.pc = "idle"
           \/ row[p] \in Linked /\ new.pc = "write" /\ new.portfolio = p /\ new.loaded = row[p]
  <2>1. CASE row[p] \in Linked
    <3> DEFINE new == [pc |-> "write", status |-> "NONE", portfolio |-> p, loaded |-> row[p]]
    <3>1. new \in ProcessRow /\ new.pc = "write" /\ new.portfolio = p /\ new.loaded = row[p]
      BY DEF ProcessRow, Steps
    <3>2. process' = [process EXCEPT ![c] = new]
      BY <1>1, <2>1
    <3> QED BY <2>1, <3>1, <3>2
  <2>2. CASE row[p] \notin Linked
    <3>1. process' = [process EXCEPT ![c] = process[c]] /\ process[c] \in ProcessRow
      BY <1>1, <1>2, <2>2
    <3> QED BY <1>2, <2>2, <3>1
  <2> QED BY <2>1, <2>2
<1>4. /\ \A z \in Processes : process'[z] = IF z = c THEN new ELSE process[z]
      /\ \A z \in Portfolios : job'[z] = IF z = p THEN result ELSE job[z]
      /\ row[p] \in Results => job[p] = result /\ row[p] = result
  BY <1>1, <1>3 DEF GenerationInv, RowInv, Results
<1>5. LockInv'
  BY <1>2, <1>3, LockKept
<1>6. GenerationTypeOK'
  BY <1>1, <1>2, <1>3 DEF GenerationInv, GenerationTypeOK, ProcessRow, JobState
<1>7. ProcessInv'
  BY <1>1, <1>2, <1>3, <1>4 DEF GenerationInv, ProcessInv, Carrying, Carries, Reporting, Reports, Results
<1>8. RowInv' /\ DoneHasPortfolio'
  BY <1>1, <1>2, <1>4 DEF GenerationInv, RowInv, DoneHasPortfolio, Results
<1>9. OwnerInv'
  <2> SUFFICES ASSUME mishaps' \cap {"reply", "edit"} = {}, ~deleted PROVE OwnerInv'
    BY <1>2 DEF OwnerInv
  <2>1. OwnerInv
    BY DEF GenerationInv
  <2>2. \A z \in Portfolios : row[z] = "GENERATING" /\ Owned(z) => Owned(z)'
    BY <1>1, <1>2, <1>3, <1>4 DEF Owned, Carrying, Carries, Reporting, Reports, Linked
  <2> QED BY <1>2, <1>3, <1>4, <2>1, <2>2 DEF OwnerInv, Carrying, Carries, Reporting, Reports
<1> QED BY <1>5, <1>6, <1>7, <1>8, <1>9 DEF GenerationInv

\* A transaction that writes the portfolio q carries and the experience commits.
LEMMA CommitKeeps ==
    ASSUME GenerationInv, NEW q \in Generators \cup Callbacks, NEW status \in PortfolioStatus,
           Carrying(q) \/ Reporting(q),
           process' = [process EXCEPT ![q] = Idle], lock' \in LockTable, LockInv',
           row' = [row EXCEPT ![process[q].portfolio] = status],
           experience' \in ExperienceStatus \cup {"NONE"},
           UNCHANGED <<deleted, job, mishaps>>,
           status \in Results => job[process[q].portfolio] = status,
           mishaps \cap {"reply", "edit"} = {} /\ ~deleted =>
                /\ experience' # "GENERATE"
                /\ q \in Callbacks => status = job[process[q].portfolio]
                /\ experience' = "DONE" => experience = "DONE" \/ status = "COMPLETED"
    PROVE  GenerationInv'
<1> USE ProcessFacts, GenerationConstants
<1> DEFINE p == process[q].portfolio
<1>1. /\ p \in Portfolios /\ job[p] # "unused" /\ q \in Processes
      /\ q \in Callbacks => Reporting(q) /\ job[p] \in Results
      /\ q \in Generators => Carrying(q) /\ ("reply" \notin mishaps => job[p] = "new")
  BY DEF GenerationInv, ProcessInv, Carrying, Carries, Reporting, Reports, Results
<1>2. /\ \A z \in Processes : process'[z] = IF z = q THEN Idle ELSE process[z]
      /\ \A z \in Portfolios : row'[z] = IF z = p THEN status ELSE row[z]
  BY <1>1
<1>3. GenerationTypeOK'
  BY <1>1, IdleRow DEF GenerationInv, GenerationTypeOK, ProcessRow, LockTable
<1>4. ProcessInv'
  BY <1>1, <1>2, IdleRow DEF GenerationInv, ProcessInv, Carrying, Carries, Reporting, Reports
<1>5. RowInv'
  BY <1>1, <1>2 DEF GenerationInv, RowInv
<1>6. ASSUME mishaps \cap {"reply", "edit"} = {}, ~deleted, NEW z \in Portfolios, row[z] = "COMPLETED"
      PROVE  row'[z] = "COMPLETED"
  BY <1>1, <1>2, <1>6 DEF GenerationInv, RowInv, Results
<1>7. DoneHasPortfolio'
  BY <1>1, <1>2, <1>6 DEF GenerationInv, DoneHasPortfolio
<1>8. OwnerInv'
  <2> SUFFICES ASSUME mishaps \cap {"reply", "edit"} = {}, ~deleted PROVE OwnerInv'
    BY DEF OwnerInv
  <2>1. ASSUME NEW c \in Callbacks, Reporting(c)'
        PROVE  /\ row'[process'[c].portfolio] \in Linked
               /\ process'[c].loaded \in Results => row'[process'[c].portfolio] = process'[c].loaded
    BY <1>1, <1>2, <2>1, IdleRow DEF GenerationInv, OwnerInv, ProcessInv, Reporting, Reports, Linked, Results
  <2>2. ASSUME NEW g \in Generators, Carrying(g)'
        PROVE  /\ row'[process'[g].portfolio] = "GENERATING"
               /\ process'[g].pc \in {"readExperience", "remove", "fail"} => process'[g].loaded = "GENERATING"
    BY <1>1, <1>2, <2>2, IdleRow DEF GenerationInv, OwnerInv, ProcessInv, Carrying, Carries, Results
  <2> QED BY <2>1, <2>2 DEF OwnerInv
<1> QED BY <1>3, <1>4, <1>5, <1>7, <1>8 DEF GenerationInv

\* The compensation commits: the portfolio it has locked goes, and the experience fails.
LEMMA CompensateFailKeeps ==
    ASSUME GenerationInv, NEW g \in Generators, CompensateFail(g)
    PROVE  GenerationInv'
<1> USE ProcessFacts, GenerationConstants
<1> DEFINE p == process[g].portfolio
           status == IF Holds(g, p) THEN "NONE" ELSE row[p]
<1>1. /\ g \in Processes /\ g \notin Callbacks /\ Carrying(g) /\ process[g].pc = "fail" /\ p \in Portfolios
      /\ UNCHANGED <<deleted, job, mishaps>>
      /\ process' = [process EXCEPT ![g] = Idle] /\ Release(g)
  BY DEF CompensateFail, At, Carrying, Carries, GenerationInv, ProcessInv, EndTransaction, Ends
<1>2. status \in PortfolioStatus /\ (status \in Results => job[p] = status)
  BY <1>1 DEF PortfolioStatus, Results, GenerationInv, RowInv
<1>3. row' = [row EXCEPT ![p] = status]
  BY <1>1 DEF CompensateFail
<1>4. /\ experience' \in ExperienceStatus \cup {"NONE"}
      /\ experience' = experience \/ experience' = "GENERATE_FAILED"
      /\ process[g].status = "GENERATE" => experience' = "GENERATE_FAILED"
  BY DEF CompensateFail, ExperienceStatus
<1>5. mishaps \cap {"reply", "edit"} = {} /\ ~deleted =>
        experience' # "GENERATE" /\ (experience' = "DONE" => experience = "DONE")
  BY <1>1, <1>4 DEF GenerationInv, OwnerInv
<1>6. LockInv' /\ lock' \in LockTable
  BY <1>1, IdleRow, LockReleased
<1> HIDE DEF status
<1> QED BY <1>1, <1>2, <1>3, <1>4, <1>5, <1>6, CommitKeeps

\* The callback commits: the result is in both rows, or was there already.
LEMMA SaveTransitionKeeps ==
    ASSUME GenerationInv, NEW c \in Callbacks, SaveTransition(c)
    PROVE  GenerationInv'
<1> USE ProcessFacts, GenerationConstants
<1> DEFINE p == process[c].portfolio
           status == IF ~Holds(c, p) THEN row[p] ELSE IF row[p] = "NONE" THEN "ORPHAN" ELSE job[p]
<1>1. /\ c \in Processes /\ c \notin Generators /\ Reporting(c) /\ process[c].pc = "commit"
      /\ p \in Portfolios /\ job[p] \in Results
      /\ UNCHANGED <<deleted, job, mishaps>>
      /\ process' = [process EXCEPT ![c] = Idle] /\ Release(c)
  BY DEF SaveTransition, At, Reporting, Reports, GenerationInv, ProcessInv, EndTransaction, Ends
<1>2. status \in PortfolioStatus /\ (status \in Results => job[p] = status)
  BY <1>1 DEF PortfolioStatus, Linked, Results, GenerationInv, RowInv
<1>3. row' = [row EXCEPT ![p] = status]
  BY <1>1 DEF SaveTransition
<1>4. /\ experience' \in ExperienceStatus \cup {"NONE"}
      /\ \/ experience' = experience
         \/ experience' = IF job[p] = "COMPLETED" THEN "DONE" ELSE "GENERATE_FAILED"
      /\ process[c].status = "GENERATE" =>
            experience' = IF job[p] = "COMPLETED" THEN "DONE" ELSE "GENERATE_FAILED"
  BY DEF SaveTransition, ExperienceStatus
<1>5. ASSUME mishaps \cap {"reply", "edit"} = {}, ~deleted
      PROVE  /\ experience' # "GENERATE" /\ status = job[p]
             /\ experience' = "DONE" => experience = "DONE" \/ status = "COMPLETED"
  <2>1. status = job[p]
    <3>1. row[p] \in Linked /\ (process[c].loaded \in Results => row[p] = process[c].loaded)
      BY <1>1, <1>5 DEF GenerationInv, OwnerInv
    <3>2. process[c].loaded \in Linked /\ (process[c].loaded \in Results => job[p] = process[c].loaded)
      BY <1>1 DEF GenerationInv, ProcessInv, Reports
    <3>3. process[c].loaded = "GENERATING" => Holds(c, p)
      BY <1>1 DEF GenerationInv, LockInv, Holds
    <3> QED BY <3>1, <3>2, <3>3 DEF Linked, Results
  <2>2. experience' # "GENERATE"
    BY <1>1, <1>4, <1>5 DEF GenerationInv, OwnerInv
  <2> QED BY <1>1, <1>4, <2>1, <2>2 DEF Results
<1>6. LockInv' /\ lock' \in LockTable
  BY <1>1, IdleRow, LockReleased
<1> HIDE DEF status
<1> QED BY <1>1, <1>2, <1>3, <1>4, <1>5, <1>6, CommitKeeps

\* The compensation reads the experience, or ends without its portfolio.
LEMMA CompensateReadExperienceKeeps ==
    ASSUME GenerationInv, NEW g \in Generators, CompensateReadExperience(g)
    PROVE  GenerationInv'
<1> USE ProcessFacts, GenerationConstants
<1> DEFINE p == process[g].portfolio
<1>1. /\ g \in Processes /\ g \notin Callbacks /\ g \notin Edits
      /\ Carrying(g) /\ process[g].pc = "readExperience" /\ p \in Portfolios
      /\ UNCHANGED <<deleted, row, job, lock, mishaps>>
  BY DEF CompensateReadExperience, At, Carrying, Carries, GenerationInv, ProcessInv
<1>2. CASE process[g].loaded # "NONE" /\ experience # "NONE"
  <2> DEFINE new == [process[g] EXCEPT !.pc = "remove", !.status = experience]
  <2>1. /\ new \in ProcessRow /\ new.pc = "remove" /\ new.portfolio = p
        /\ new.loaded = process[g].loaded /\ new.status = experience
    <3>1. process[g] \in ProcessRow
      BY <1>1
    <3> QED BY <3>1 DEF ProcessRow, Steps
  <2>2. process' = [process EXCEPT ![g] = new] /\ experience' = experience
    <3>1. process' = [process EXCEPT ![g].pc = "remove", ![g].status = experience]
      BY <1>2 DEF CompensateReadExperience
    <3>2. experience' = experience
      BY <1>2 DEF CompensateReadExperience
    <3> QED BY <1>1, <3>1, <3>2
  <2> HIDE DEF new
  <2>3. LockInv'
    BY <1>1, <2>1, <2>2, LockKept
  <2> QED BY <1>1, <2>1, <2>2, <2>3, ProcessMoves DEF Carries, Reports
<1>3. CASE process[g].loaded = "NONE" \/ experience = "NONE"
  <2>1. /\ process' = [process EXCEPT ![g] = Idle]
        /\ experience' = experience \/ experience' = "GENERATE_FAILED"
    BY <1>3 DEF CompensateReadExperience, Ends
  <2>2. LockInv'
    BY <1>1, <2>1, IdleRow, LockKept
  <2>3. mishaps \cap {"reply", "edit"} = {} /\ ~deleted => experience # "GENERATE"
    BY <1>1, <1>3 DEF GenerationInv, OwnerInv
  <2>4. row' = [row EXCEPT ![p] = row[p]]
    BY <1>1
  <2>5. row[p] \in PortfolioStatus /\ (row[p] \in Results => job[p] = row[p])
    BY <1>1 DEF GenerationInv, RowInv
  <2>6. experience' \in ExperienceStatus \cup {"NONE"}
    BY <2>1 DEF ExperienceStatus
  <2> QED BY <1>1, <2>1, <2>2, <2>3, <2>4, <2>5, <2>6, CommitKeeps
<1> QED BY <1>2, <1>3

\* The portfolio is inserted: no other is there, so nobody carries one.
LEMMA InsertKeeps ==
    ASSUME GenerationInv, NEW g \in Generators, InsertPortfolio(g)
    PROVE  GenerationInv'
<1> USE ProcessFacts, GenerationConstants
<1>1. /\ g \in Processes /\ g \notin Callbacks /\ g \notin Edits
      /\ process[g].pc = "insert" /\ ~Carrying(g) /\ ~Reporting(g)
      /\ UNCHANGED <<deleted, mishaps>>
  BY DEF InsertPortfolio, At, Carrying, Carries, Reporting, Reports
<1>2. CASE EndTransaction(g) /\ UNCHANGED <<experience, row, job>>
  BY <1>1, <1>2, EndKeeps
<1>3. ASSUME LinkedRows = {}, NEW p \in Portfolios, job[p] = "unused",
             row' = [row EXCEPT ![p] = "GENERATING"],
             job' = [job EXCEPT ![p] = "new"],
             process' = [process EXCEPT ![g].pc = "delegate", ![g].portfolio = p],
             experience' = IF Holds(g, Experience) THEN "GENERATE" ELSE experience,
             Release(g)
      PROVE  GenerationInv'
  <2> DEFINE new == [process[g] EXCEPT !.pc = "delegate", !.portfolio = p]
  <2>1. new \in ProcessRow /\ new.pc = "delegate" /\ new.portfolio = p
    <3>1. process[g] \in ProcessRow
      BY <1>1
    <3> QED BY <3>1 DEF ProcessRow, Steps
  <2>2. process' = [process EXCEPT ![g] = new]
    BY <1>1, <1>3
  <2> HIDE DEF new
  <2>3. /\ \A z \in Processes : process'[z] = IF z = g THEN new ELSE process[z]
        /\ \A z \in Portfolios : row'[z] = IF z = p THEN "GENERATING" ELSE row[z]
        /\ \A z \in Portfolios : job'[z] = IF z = p THEN "new" ELSE job[z]
        /\ \A z \in Portfolios : row[z] \notin Linked
    <3>1. \A z \in Portfolios : row[z] \notin Linked
      BY <1>3 DEF LinkedRows
    <3>2. \A z \in Portfolios : row'[z] = IF z = p THEN "GENERATING" ELSE row[z]
      BY <1>3
    <3>3. \A z \in Portfolios : job'[z] = IF z = p THEN "new" ELSE job[z]
      BY <1>3
    <3> QED BY <1>1, <2>2, <3>1, <3>2, <3>3
  <2>4. LockInv' /\ lock' \in LockTable
    BY <1>1, <1>3, <2>1, <2>2, LockReleased
  <2>5. GenerationTypeOK'
    <3>1. experience' \in ExperienceStatus \cup {"NONE"}
      BY <1>3 DEF ExperienceStatus
    <3>2. row' \in [Portfolios -> PortfolioStatus] /\ job' \in [Portfolios -> JobState]
      BY <1>3 DEF PortfolioStatus, Linked, JobState
    <3>3. process' \in [Processes -> ProcessRow]
      BY <1>1, <2>1, <2>2
    <3> QED BY <1>1, <2>4, <3>1, <3>2, <3>3 DEF GenerationInv, GenerationTypeOK, ProcessRow, LockTable
  <2>6. ProcessInv'
    BY <1>1, <1>3, <2>1, <2>3, SMTT(30) DEF GenerationInv, ProcessInv, Carrying, Carries, Reporting, Reports, Results
  <2>7. RowInv'
    <3> SUFFICES ASSUME NEW z \in Portfolios
                 PROVE  (job'[z] = "unused" => row'[z] = "NONE") /\ (row'[z] \in Results => job'[z] = row'[z])
      BY DEF RowInv
    <3> QED BY <2>3 DEF GenerationInv, RowInv, Results
  <2>8. DoneHasPortfolio'
    BY <1>1, <1>3, <2>3 DEF GenerationInv, DoneHasPortfolio, Linked, Results
  <2>9. OwnerInv'
    <3> SUFFICES ASSUME mishaps \cap {"reply", "edit"} = {}, ~deleted PROVE OwnerInv'
      BY <1>1 DEF OwnerInv
    <3>1. \A c \in Callbacks : ~Reporting(c)'
      BY <1>1, <2>3 DEF GenerationInv, OwnerInv, ProcessInv, Reporting
    <3>2. \A h \in Generators \ {g} : ~Carrying(h)'
      BY <1>1, <2>3 DEF GenerationInv, OwnerInv, ProcessInv, Carrying, Linked
    <3>3. row'[p] = "GENERATING" /\ Carrying(g)' /\ process'[g] = new
      BY <1>1, <2>1, <2>3 DEF Carrying, Carries
    <3>4. \A q \in Processes : process'[q].pc \notin {"remove", "fail", "commit"}
      BY <1>1, <2>1, <2>6, <3>1, <3>2, <3>3
      DEF ProcessInv, Carrying, Carries, Reporting, Reports, Processes
    <3>5. Owned(p)'
      BY <2>1, <3>3 DEF Owned
    <3> QED BY <2>1, <3>1, <3>2, <3>3, <3>4, <3>5 DEF OwnerInv
  <2> QED BY <2>4, <2>5, <2>6, <2>7, <2>8, <2>9 DEF GenerationInv
<1> QED BY <1>2, <1>3 DEF InsertPortfolio

\* An edit that commits writes what it has read, or loses somebody's update.
LEMMA EditCommits ==
    ASSUME GenerationInv, NEW x \in Edits, CommitEdit(x), process[x].pc # "idle",
           UNCHANGED <<deleted, job>>,
           \/ row' = row
           \/ /\ process[x].pc = "portfolio"
              /\ row' = [row EXCEPT ![process[x].portfolio] = process[x].loaded]
           \/ /\ process[x].pc = "portfolio" /\ row[process[x].portfolio] = "NONE"
              /\ row' = [row EXCEPT ![process[x].portfolio] = "ORPHAN"]
    PROVE  GenerationInv'
<1> USE ProcessFacts, GenerationConstants
<1> DEFINE p == process[x].portfolio
<1>1. /\ x \in Processes /\ x \notin Generators /\ x \notin Callbacks
      /\ process' = [process EXCEPT ![x] = Idle] /\ Release(x)
      /\ process[x] \in ProcessRow
      /\ process[x].pc = "portfolio" =>
            /\ p \in Portfolios /\ process[x].loaded \in Linked /\ job[p] # "unused"
            /\ process[x].loaded \in Results => job[p] = process[x].loaded
  BY DEF CommitEdit, EndTransaction, Ends, GenerationInv, ProcessInv
<1>2. CASE Stale(x)
  <2>1. mishaps' = mishaps \cup {"edit"}
    BY <1>2 DEF CommitEdit
  <2>2. experience' \in ExperienceStatus \cup {"NONE"}
    BY <1>1 DEF CommitEdit, ProcessRow
  <2>3. LockInv' /\ lock' \in LockTable
    BY <1>1, IdleRow, LockReleased
  <2>4. /\ \A z \in Processes : process'[z] = IF z = x THEN Idle ELSE process[z]
        /\ row' \in [Portfolios -> PortfolioStatus]
    BY <1>1 DEF PortfolioStatus
  <2>5. GenerationTypeOK'
    BY <1>1, <2>1, <2>2, <2>3, <2>4, IdleRow DEF GenerationInv, GenerationTypeOK, ProcessRow, LockTable, Mishaps
  <2>6. ProcessInv'
    BY <1>1, <2>1, <2>4, IdleRow DEF GenerationInv, ProcessInv, Carrying, Carries, Reporting, Reports
  <2>7. RowInv'
    BY <1>1 DEF GenerationInv, RowInv, Linked, Results
  <2>8. OwnerInv' /\ DoneHasPortfolio'
    BY <2>1 DEF OwnerInv, DoneHasPortfolio
  <2> QED BY <2>3, <2>5, <2>6, <2>7, <2>8 DEF GenerationInv
<1>3. CASE ~Stale(x)
  <2>1. experience' = experience /\ mishaps' = mishaps
    BY <1>3 DEF CommitEdit, Stale
  <2>2. process[x].pc = "portfolio" => process[x].loaded = row[p]
    BY <1>1, <1>3 DEF Stale
  <2>3. row' = row
    <3>1. row[p] # "NONE" \/ process[x].pc # "portfolio"
      BY <1>1, <2>2 DEF Linked, Results
    <3> QED BY <1>1, <2>2, <3>1
  <2> QED BY <1>1, <2>1, <2>3, EndKeeps DEF CommitEdit, GenerationInv, ProcessInv, Carrying, Carries, Reporting, Reports
<1> QED BY <1>2, <1>3

LEMMA EditsKeep ==
    ASSUME GenerationInv, NEW x \in Edits, LoadForEdit(x) \/ SaveExperience(x) \/ SavePortfolio(x)
    PROVE  GenerationInv'
<1> USE ProcessFacts, GenerationConstants
<1>1. /\ x \in Processes /\ x \notin Generators /\ x \notin Callbacks
      /\ process[x] \in ProcessRow
      /\ process[x].pc \in {"idle", "update", "portfolio"} /\ ~Carrying(x) /\ ~Reporting(x)
      /\ UNCHANGED <<deleted, job>>
  BY DEF GenerationInv, ProcessInv, Carrying, Carries, Reporting, Reports, LoadForEdit, SaveExperience, SavePortfolio
<1>2. ASSUME NEW new \in ProcessRow, process' = [process EXCEPT ![x] = new],
             UNCHANGED <<experience, row, mishaps>>,
             lock' \in LockTable, \A p \in Portfolios : lock'[p] = lock[p],
             \/ new.pc = "update"
             \/ new.pc = "portfolio" /\ new.portfolio \in LinkedRows /\ new.loaded = row[new.portfolio]
      PROVE  GenerationInv'
  <2>1. LockInv'
    BY <1>1, <1>2, LockKept
  <2> QED BY <1>1, <1>2, <2>1, ProcessMoves DEF LinkedRows
<1>3. CASE LoadForEdit(x)
  <2>1. UNCHANGED <<experience, row, mishaps, lock>>
    BY <1>3 DEF LoadForEdit
  <2>2. CASE process' = [process EXCEPT ![x] = [Idle EXCEPT !.pc = "update", !.status = experience]]
    <3> DEFINE new == [Idle EXCEPT !.pc = "update", !.status = experience]
    <3>1. new \in ProcessRow /\ new.pc = "update"
      BY DEF Idle, ProcessRow, Steps, PortfolioStatus
    <3> HIDE DEF new
    <3> QED BY <1>2, <2>1, <2>2, <3>1 DEF new
  <2>3. ASSUME NEW p \in LinkedRows,
               process' = [process EXCEPT ![x] =
                    [pc |-> "portfolio", status |-> "NONE", portfolio |-> p, loaded |-> row[p]]]
        PROVE  GenerationInv'
    <3> DEFINE new == [pc |-> "portfolio", status |-> "NONE", portfolio |-> p, loaded |-> row[p]]
    <3>1. new \in ProcessRow /\ new.pc = "portfolio" /\ new.portfolio = p /\ new.loaded = row[p]
      BY DEF ProcessRow, Steps, LinkedRows
    <3> HIDE DEF new
    <3> QED BY <1>2, <2>1, <2>3, <3>1 DEF new
  <2> QED BY <1>3, <2>2, <2>3 DEF LoadForEdit
<1>4. CASE SaveExperience(x)
  <2>1. CASE CommitEdit(x) /\ UNCHANGED row
    BY <1>1, <1>4, <2>1, EditCommits DEF SaveExperience, At
  <2>2. ASSUME NEW p \in LinkedRows, Acquire(x, Experience),
               process' = [process EXCEPT ![x].pc = "portfolio", ![x].portfolio = p, ![x].loaded = row[p]],
               UNCHANGED <<experience, row, mishaps>>
        PROVE  GenerationInv'
    <3> DEFINE new == [process[x] EXCEPT !.pc = "portfolio", !.portfolio = p, !.loaded = row[p]]
    <3>1. new \in ProcessRow /\ new.pc = "portfolio" /\ new.portfolio = p /\ new.loaded = row[p]
      BY <1>1 DEF ProcessRow, Steps, LinkedRows
    <3>2. process' = [process EXCEPT ![x] = new]
      BY <1>1, <2>2
    <3>3. lock' \in LockTable /\ \A z \in Portfolios : lock'[z] = lock[z]
      BY <1>1, <2>2 DEF Acquire, LockTable
    <3> HIDE DEF new
    <3> QED BY <1>2, <2>2, <3>1, <3>2, <3>3
  <2> QED BY <1>4, <2>1, <2>2 DEF SaveExperience
<1>5. CASE SavePortfolio(x)
  <2>1. CASE EndTransaction(x) /\ UNCHANGED <<experience, row, mishaps>>
    BY <1>1, <2>1, EndKeeps
  <2>2. CASE /\ CommitEdit(x)
             /\ row' = [row EXCEPT ![process[x].portfolio] =
                    IF @ = "NONE" /\ Holds(x, Experience) THEN "ORPHAN" ELSE process[x].loaded]
    <3>1. process[x].pc = "portfolio" /\ process[x].portfolio \in Portfolios
      BY <1>5 DEF SavePortfolio, At, GenerationInv, ProcessInv
    <3>2. \/ row' = [row EXCEPT ![process[x].portfolio] = process[x].loaded]
          \/ /\ row[process[x].portfolio] = "NONE"
             /\ row' = [row EXCEPT ![process[x].portfolio] = "ORPHAN"]
      BY <2>2, <3>1
    <3> QED BY <1>1, <2>2, <3>1, <3>2, EditCommits
  <2> QED BY <1>5, <2>1, <2>2 DEF SavePortfolio
<1> QED BY <1>3, <1>4, <1>5

LEMMA DeleteKeeps == ASSUME GenerationInv, DeleteExperience PROVE GenerationInv'
<1> USE ProcessFacts, GenerationConstants
<1>1. /\ UNCHANGED <<job, lock, process, mishaps>>
      /\ deleted' = TRUE /\ experience' = "NONE"
      /\ row' \in [Portfolios -> PortfolioStatus]
      /\ \A p \in Portfolios : row'[p] = row[p] \/ row'[p] = "NONE"
  BY DEF DeleteExperience, PortfolioStatus
<1>2. GenerationTypeOK' /\ LockInv'
  BY <1>1 DEF GenerationInv, GenerationTypeOK, LockInv
<1>3. ProcessInv' /\ RowInv'
  BY <1>1 DEF GenerationInv, ProcessInv, RowInv, Carrying, Reporting, Results
<1>4. OwnerInv' /\ DoneHasPortfolio'
  BY <1>1 DEF OwnerInv, DoneHasPortfolio
<1> QED BY <1>2, <1>3, <1>4 DEF GenerationInv

LEMMA GenerationInvStep == GenerationInv /\ [GenerationNext]_vars => GenerationInv'
<1> SUFFICES ASSUME GenerationInv, [GenerationNext]_vars PROVE GenerationInv'
  OBVIOUS
<1>1. ASSUME NEW g \in Generators, GenerateStep(g) PROVE GenerationInv'
  BY <1>1, BeforeInsertKeeps, InsertKeeps, DelegateKeeps, CompensationReadsKeep,
     CompensateReadExperienceKeeps, CompensateFailKeeps DEF GenerateStep
<1>2. ASSUME NEW c \in Callbacks, CallbackStep(c) PROVE GenerationInv'
  BY <1>2, ReceiveKeeps, CallbackReadsKeep, SaveTransitionKeeps DEF CallbackStep
<1>3. ASSUME NEW x \in Edits, EditStep(x) PROVE GenerationInv'
  BY <1>3, EditsKeep DEF EditStep
<1>4. CASE UNCHANGED vars
  BY <1>4 DEF vars, GenerationInv, GenerationTypeOK, ProcessInv, RowInv, LockInv, OwnerInv, Owned,
              DoneHasPortfolio, Carrying, Reporting
<1> QED BY <1>1, <1>2, <1>3, <1>4, DeleteKeeps, AbortKeeps DEF GenerationNext

LEMMA GenerationInvariance == GenerationSpec => []GenerationInv
BY GenerationInvInit, GenerationInvStep, PTL DEF GenerationSpec

-------------------------------------------------------------------------------
\* The rows, the jobs, the locks and what the requests have loaded are well formed.
THEOREM GenerationIsWellFormed == GenerationSpec => []GenerationTypeOK
<1>1. GenerationInv => GenerationTypeOK
  BY DEF GenerationInv
<1> QED BY <1>1, GenerationInvariance, PTL

\* However many generations, callbacks and edits run, and wherever they stop: a DONE
\* experience has its COMPLETED portfolio.
THEOREM DoneExperienceHasPortfolio == GenerationSpec => []DoneHasPortfolio
<1>1. GenerationInv => DoneHasPortfolio
  BY DEF GenerationInv
<1> QED BY <1>1, GenerationInvariance, PTL

\* An experience in GENERATE is never left alone: the AI server, a generator or a
\* callback still has the portfolio that is GENERATING.
THEOREM GeneratingExperienceHasOwner == GenerationSpec => []GenerateHasOwner
<1>1. GenerationInv => GenerateHasOwner
  <2> SUFFICES ASSUME GenerationInv, experience = "GENERATE", ~deleted, mishaps = {}
               PROVE  \E p \in Portfolios : row[p] = "GENERATING" /\ InFlight(p)
    BY DEF GenerateHasOwner
  <2>1. PICK p \in Portfolios : row[p] = "GENERATING" /\ Owned(p)
    BY DEF GenerationInv, OwnerInv
  <2> QED BY <2>1 DEF Owned, InFlight, Processes
<1> QED BY <1>1, GenerationInvariance, PTL

\* A completed portfolio is changed by the user's deletion only, or by a request that
\* had read it before.
THEOREM ResultsAreKept == GenerationSpec => ResultIsKept
<1> DEFINE Kept ==
        \A p \in Portfolios : row[p] = "COMPLETED" /\ row'[p] # "COMPLETED"
            => deleted' \/ \E q \in Processes :
                    process[q].portfolio = p /\ process[q].loaded = "GENERATING"
<1>1. GenerationInv /\ [GenerationNext]_vars => [Kept]_vars
  <2> SUFFICES ASSUME GenerationInv, GenerationNext, NEW p \in Portfolios,
                      row[p] = "COMPLETED", row'[p] # "COMPLETED", ~deleted'
               PROVE  \E q \in Processes : process[q].portfolio = p /\ process[q].loaded = "GENERATING"
    BY DEF vars
  <2> USE ProcessFacts
  <2>1. job[p] = "COMPLETED"
    BY DEF GenerationInv, RowInv, Results
  <2>2. ASSUME NEW q \in Processes, Holds(q, p)
        PROVE  process[q].portfolio = p /\ process[q].loaded = "GENERATING"
    BY <2>2, GenerationConstants DEF GenerationInv, LockInv, Holds
  <2>3. ASSUME NEW g \in Generators, GenerateStep(g)
        PROVE  CompensateFail(g) /\ Holds(g, p)
    BY <2>1, <2>3 DEF GenerateStep, LoadExperience, TransitionToGenerate, InsertPortfolio, Delegate,
       CompensateReadRow, CompensateReadExperience, CompensateRemove, CompensateFail
  <2>4. ASSUME NEW c \in Callbacks, CallbackStep(c) PROVE Holds(c, p)
    BY <2>4 DEF CallbackStep, ReceiveResult, WriteResult, ReadExperience, SaveTransition
  <2>5. ASSUME NEW x \in Edits, EditStep(x)
        PROVE  process[x].portfolio = p /\ process[x].loaded = "GENERATING"
    <3>1. SavePortfolio(x)
      BY <2>5 DEF EditStep, LoadForEdit, SaveExperience
    <3>2. /\ process[x].portfolio \in Portfolios /\ process[x].loaded \in Linked
          /\ process[x].loaded \in Results => job[process[x].portfolio] = process[x].loaded
      BY <3>1 DEF SavePortfolio, At, GenerationInv, ProcessInv
    <3>3. process[x].portfolio = p /\ row'[p] = process[x].loaded
      BY <3>1, <3>2 DEF SavePortfolio
    <3> QED BY <2>1, <3>2, <3>3 DEF Linked, Results
  <2>6. ~DeleteExperience
    BY DEF DeleteExperience
  <2> QED BY <2>2, <2>3, <2>4, <2>5, <2>6 DEF GenerationNext, Deadlock, Crash
<1> QED BY <1>1, GenerationInvariance, PTL DEF GenerationSpec, ResultIsKept
=============================================================================
