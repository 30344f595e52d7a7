----------------------------- MODULE ActivityTags -----------------------------
(***************************************************************************)
(* The activity tags of one user and the insight logs they are put on:     *)
(* ActivityService, InsightActivityService and the lists of InsightService.*)
(* A log is updated and a tag deleted in transactions that read the table  *)
(* of mappings and then write what differs from what they have read, with  *)
(* nothing locked in between; a list is read without a transaction.        *)
(*                                                                         *)
(* A step is one statement; the last one of a transaction is its commit.   *)
(* The table of mappings has no unique key, so a tag may be on a log more  *)
(* than once; its two foreign keys are checked by the statements that      *)
(* insert a mapping or delete what it points to.                           *)
(***************************************************************************)
EXTENDS Naturals, FiniteSets

CONSTANTS
    Tags,           \* ids of the activity table
    TagNames,       \* names a user may give
    TaggedLogs,     \* ids of the insight logs
    TagRequests,    \* executions of the handlers
    MaxTags,        \* MAX_ACTIVITY_TAG_PER_USER
    MaxCopies,      \* bound on the mappings of one tag to one log
    NoName,         \* of an id that is free
    NoTagged        \* no log, or no tag

ASSUME TagConstants ==
    /\ MaxTags \in Nat /\ MaxCopies \in Nat \ {0}
    /\ NoName \notin TagNames /\ NoTagged \notin TaggedLogs \cup Tags

VARIABLES
    tagName,        \* the committed rows of the activity table
    usedIds,        \* ids of tags and logs that have been given out
    taggable,       \* the logs that exist
    copies,         \* how often a tag is mapped to a log, committed
    tagReq,         \* where a request is and what it has read
    chosen,         \* the tags a log was last saved with
    disturbed,      \* logs whose updates or deletions have overlapped
    stale           \* lists during whose reading, or after it, a table has changed

tables == <<tagName, taggable, copies>>
tagVars == <<tables, usedIds, tagReq, chosen, disturbed, stale>>

TagIdle == [step |-> "idle", on |-> NoTagged, name |-> NoName, wanted |-> {}, seen |-> {},
            gone |-> {}, logs |-> {}, names |-> {}]

TagsTypeOK ==
    /\ tagName \in [Tags -> TagNames \cup {NoName}]
    /\ usedIds \subseteq Tags \cup TaggedLogs
    /\ taggable \subseteq TaggedLogs
    /\ copies \in [TaggedLogs -> [Tags -> 0..MaxCopies]]
    /\ tagReq \in [TagRequests ->
            [step : {"idle", "lookup", "insert", "create", "load", "read", "remove", "add",
                     "unmap", "delete", "unlink", "drop",
                     "ids", "search", "similar", "names", "listed"},
             on : TaggedLogs \cup Tags \cup {NoTagged}, name : TagNames \cup {NoName},
             wanted : SUBSET Tags, seen : SUBSET Tags, gone : SUBSET (TaggedLogs \X Tags),
             logs : SUBSET TaggedLogs, names : SUBSET (TaggedLogs \X Tags)]]
    /\ chosen \in [TaggedLogs -> SUBSET Tags]
    /\ disturbed \subseteq TaggedLogs
    /\ stale \subseteq TagRequests

TagsInit ==
    /\ tagName = [t \in Tags |-> NoName]
    /\ usedIds = {}
    /\ taggable = {}
    /\ copies = [l \in TaggedLogs |-> [t \in Tags |-> 0]]
    /\ tagReq = [q \in TagRequests |-> TagIdle]
    /\ chosen = [l \in TaggedLogs |-> {}]
    /\ disturbed = {}
    /\ stale = {}

-------------------------------------------------------------------------------
TagRows == {t \in Tags : tagName[t] # NoName}
InStep(q, step) == tagReq[q].step = step
Start(q, request) == tagReq' = [tagReq EXCEPT ![q] = request]
Proceed(q, step) == tagReq' = [tagReq EXCEPT ![q].step = step]
Leave(q) == tagReq' = [tagReq EXCEPT ![q] = TagIdle]
TablesStay == UNCHANGED <<tagName, usedIds, taggable, copies, chosen, disturbed>>

\* The mappings a transaction sees: its own deletions are not committed yet.
Remaining(q) == [l \in TaggedLogs |-> [t \in Tags |->
                    IF <<l, t>> \in tagReq[q].gone THEN 0 ELSE copies[l][t]]]

\* A DELETE of mappings waits for rows another transaction has deleted.
DeleteMappings(q, pairs, next) ==
    LET rows == {pair \in pairs : copies[pair[1]][pair[2]] > 0}
    IN /\ \A p \in TagRequests \ {q} : rows \cap tagReq[p].gone = {}
       /\ tagReq' = [tagReq EXCEPT ![q].step = next, ![q].gone = rows]
       /\ TablesStay

\* Another request is in the middle of an update or a deletion of this log.
Overlapped(q, l) ==
    IF \E p \in TagRequests \ {q} :
            tagReq[p].on = l /\ tagReq[p].step \in {"read", "remove", "add", "drop"}
    THEN disturbed \cup {l} ELSE disturbed

\* createActivity: the count, without a lock, ...
CreateActivity(q) ==
    /\ InStep(q, "idle")
    /\ Cardinality(TagRows) < MaxTags
    /\ \E name \in TagNames : Start(q, [TagIdle EXCEPT !.step = "lookup", !.name = name])
    /\ TablesStay

\* ... the name, ...
FindByNameAndUser(q) ==
    /\ InStep(q, "lookup")
    /\ IF \E t \in TagRows : tagName[t] = tagReq[q].name THEN Leave(q) ELSE Proceed(q, "insert")
    /\ TablesStay

\* ... and the INSERT, which the unique key of name and user may refuse.
InsertTag(q) ==
    /\ InStep(q, "insert")
    /\ \/ /\ \E t \in TagRows : tagName[t] = tagReq[q].name
          /\ UNCHANGED <<tagName, usedIds>>
       \/ /\ \A t \in TagRows : tagName[t] # tagReq[q].name
          /\ \E t \in Tags \ usedIds :
                /\ tagName' = [tagName EXCEPT ![t] = tagReq[q].name]
                /\ usedIds' = usedIds \cup {t}
    /\ Leave(q)
    /\ UNCHANGED <<taggable, copies, chosen, disturbed>>

\* createInsight looks for the tags (findByIdsOrThrow) before the embedding ...
CreateTaggedLog(q) ==
    /\ InStep(q, "idle")
    /\ \E wanted \in SUBSET TagRows : Start(q, [TagIdle EXCEPT !.step = "create", !.wanted = wanted])
    /\ TablesStay

\* ... and inserts the log and its mappings in one transaction, if the tags are still there.
SaveAllByIds(q) ==
    /\ InStep(q, "create")
    /\ IF tagReq[q].wanted \subseteq TagRows
       THEN \E l \in TaggedLogs \ usedIds :
                /\ usedIds' = usedIds \cup {l}
                /\ taggable' = taggable \cup {l}
                /\ copies' = [copies EXCEPT ![l] = [t \in Tags |->
                                    IF t \in tagReq[q].wanted THEN 1 ELSE 0]]
                /\ chosen' = [chosen EXCEPT ![l] = tagReq[q].wanted]
       ELSE UNCHANGED <<usedIds, taggable, copies, chosen>>
    /\ Leave(q)
    /\ UNCHANGED <<tagName, disturbed>>

\* updateInsight: the log and the tags are looked for before the embedding; ...
UpdateTaggedLog(q) ==
    /\ InStep(q, "idle")
    /\ \E l \in taggable, wanted \in SUBSET TagRows :
        Start(q, [TagIdle EXCEPT !.step = "load", !.on = l, !.wanted = wanted])
    /\ TablesStay

\* ... the transaction loads the log again, ...
LoadTaggedLog(q) ==
    /\ InStep(q, "load")
    /\ IF tagReq[q].on \in taggable THEN Proceed(q, "read") ELSE Leave(q)
    /\ TablesStay

\* ... reads its tags, ...
FindAllActivitiesByInsightId(q) ==
    /\ InStep(q, "read")
    /\ tagReq' = [tagReq EXCEPT ![q].step = "remove",
                    ![q].seen = {t \in Tags : copies[tagReq[q].on][t] > 0}]
    /\ TablesStay

\* ... deletes those that are not wanted, ...
DeleteByIds(q) ==
    /\ InStep(q, "remove")
    /\ DeleteMappings(q, {tagReq[q].on} \X (tagReq[q].seen \ tagReq[q].wanted), "add")

\* Mutant: all the tags wanted are added.
AddAll(q) == tagReq[q].wanted

\* ... and adds those it has not seen.
ToAddIds(q) == tagReq[q].wanted \ tagReq[q].seen

\* The commit.  What is added must exist, and so must the log then; save(log) alone
\* would insert a deleted log again.
CompareAndReplaceByIds(q) ==
    /\ InStep(q, "add")
    /\ LET l == tagReq[q].on
       IN IF ToAddIds(q) = {} \/ (ToAddIds(q) \subseteq TagRows /\ l \in taggable)
          THEN /\ \A t \in ToAddIds(q) : Remaining(q)[l][t] < MaxCopies
               /\ copies' = [copies EXCEPT ![l] = [t \in Tags |->
                                Remaining(q)[l][t] + (IF t \in ToAddIds(q) THEN 1 ELSE 0)]]
               /\ taggable' = taggable \cup {l}
               /\ chosen' = [chosen EXCEPT ![l] = tagReq[q].wanted]
               /\ disturbed' = Overlapped(q, l) \cup ({l} \ taggable)
          ELSE UNCHANGED <<copies, taggable, chosen, disturbed>>
    /\ Leave(q)
    /\ UNCHANGED <<tagName, usedIds>>

\* deleteActivity: the tag is looked for, its mappings are deleted, then the tag itself,
\* which a mapping committed in between refuses.
DeleteActivity(q) ==
    /\ InStep(q, "idle")
    /\ \E t \in TagRows : Start(q, [TagIdle EXCEPT !.step = "unmap", !.on = t])
    /\ TablesStay

DeleteAllByActivityId(q) ==
    /\ InStep(q, "unmap")
    /\ DeleteMappings(q, TaggedLogs \X {tagReq[q].on}, "delete")

DeleteTag(q) ==
    /\ InStep(q, "delete")
    /\ LET t == tagReq[q].on
       IN IF \E l \in TaggedLogs : Remaining(q)[l][t] > 0
          THEN UNCHANGED <<tagName, copies>>
          ELSE /\ tagName' = [tagName EXCEPT ![t] = NoName]
               /\ copies' = Remaining(q)
    /\ Leave(q)
    /\ UNCHANGED <<usedIds, taggable, chosen, disturbed>>

\* deleteInsight does the same for a log.
DeleteTaggedLog(q) ==
    /\ InStep(q, "idle")
    /\ \E l \in taggable : Start(q, [TagIdle EXCEPT !.step = "unlink", !.on = l])
    /\ TablesStay

DeleteAllByInsightId(q) ==
    /\ InStep(q, "unlink")
    /\ DeleteMappings(q, {tagReq[q].on} \X Tags, "drop")

DropLog(q) ==
    /\ InStep(q, "drop")
    /\ LET l == tagReq[q].on
       IN IF \E t \in Tags : Remaining(q)[l][t] > 0
          THEN UNCHANGED <<taggable, copies, disturbed>>
          ELSE /\ taggable' = taggable \ {l}
               /\ copies' = Remaining(q)
               /\ disturbed' = Overlapped(q, l)
    /\ Leave(q)
    /\ UNCHANGED <<tagName, usedIds, chosen>>

\* getInsightLogs with a tag: the tag, ...
ListByTag(q) ==
    /\ InStep(q, "idle")
    /\ \E t \in TagRows : Start(q, [TagIdle EXCEPT !.step = "ids", !.on = t])
    /\ TablesStay

\* ... the ids of its logs, ...
FindAllInsightIdByActivityId(q) ==
    /\ InStep(q, "ids")
    /\ LET ids == {l \in TaggedLogs : copies[l][tagReq[q].on] > 0}
       IN IF ids = {} THEN Leave(q)
          ELSE tagReq' = [tagReq EXCEPT ![q].step = "search", ![q].logs = ids]
    /\ TablesStay

\* ... or, without a tag, and for the summary, all the ids; ...
GetSummaryInsights(q) ==
    /\ InStep(q, "idle")
    /\ Start(q, [TagIdle EXCEPT !.step = "search", !.logs = TaggedLogs])
    /\ TablesStay

\* ... the logs that are still there, ...
SearchLogs(q) ==
    /\ InStep(q, "search")
    /\ tagReq' = [tagReq EXCEPT ![q].step = "names", ![q].logs = @ \cap taggable]
    /\ TablesStay

\* ... or those that are like a text, once its vector is known; ...
SearchInsightWithSimilarity(q) ==
    /\ InStep(q, "idle")
    /\ Start(q, [TagIdle EXCEPT !.step = "similar"])
    /\ TablesStay

FindSimilarInsights(q) ==
    /\ InStep(q, "similar")
    /\ \E near \in SUBSET taggable :
        tagReq' = [tagReq EXCEPT ![q].step = "names", ![q].logs = near]
    /\ TablesStay

\* ... and the names of their tags, in one query, put beside each log.
FindAllActivitiesByInsightIds == {pair \in TaggedLogs \X Tags : copies[pair[1]][pair[2]] > 0}

GetNamesByInsightIds(q) ==
    /\ InStep(q, "names")
    /\ tagReq' = [tagReq EXCEPT ![q].step = "listed",
                    ![q].names = FindAllActivitiesByInsightIds \cap (tagReq[q].logs \X Tags)]
    /\ TablesStay

\* The embedding service fails, the list is answered, a transaction is rolled back, the process dies.
AbortTagRequest(q) ==
    /\ ~InStep(q, "idle")
    /\ Leave(q)
    /\ TablesStay

TagStep(q) ==
    \/ CreateActivity(q) \/ FindByNameAndUser(q) \/ InsertTag(q)
    \/ CreateTaggedLog(q) \/ SaveAllByIds(q)
    \/ UpdateTaggedLog(q) \/ LoadTaggedLog(q) \/ FindAllActivitiesByInsightId(q)
    \/ DeleteByIds(q) \/ CompareAndReplaceByIds(q)
    \/ DeleteActivity(q) \/ DeleteAllByActivityId(q) \/ DeleteTag(q)
    \/ DeleteTaggedLog(q) \/ DeleteAllByInsightId(q) \/ DropLog(q)
    \/ ListByTag(q) \/ FindAllInsightIdByActivityId(q) \/ GetSummaryInsights(q) \/ SearchLogs(q)
    \/ SearchInsightWithSimilarity(q) \/ FindSimilarInsights(q) \/ GetNamesByInsightIds(q)
    \/ AbortTagRequest(q)

Listing(q) == InStep(q, "ids") \/ InStep(q, "search") \/ InStep(q, "names") \/ InStep(q, "listed")

TagsNext ==
    /\ \E q \in TagRequests : TagStep(q)
    /\ stale' = {q \in TagRequests : Listing(q)' /\ (q \in stale \/ tables' # tables)}

TagsSpec == TagsInit /\ [][TagsNext]_tagVars

-------------------------------------------------------------------------------
\* A log carries each of the tags it was last saved with once, but for those deleted
\* since, and no other: an update deletes and adds by what it has read, while tags are
\* deleted from all logs.  Logs whose own updates or deletions overlap are set aside;
\* nothing in the table keeps a tag from being on them twice.  And a list shows such a
\* log under a tag only if it has it, though ids, logs and names are read one after the
\* other; lists during whose reading a table changes are set aside.
LogHasItsTags ==
    /\ \A l \in taggable \ disturbed, t \in Tags :
        copies[l][t] = IF t \in chosen[l] \cap TagRows THEN 1 ELSE 0
    /\ \A q \in TagRequests \ stale, l \in TaggedLogs \ disturbed :
        InStep(q, "listed") /\ l \in tagReq[q].logs =>
            /\ {t \in Tags : <<l, t>> \in tagReq[q].names} = chosen[l] \cap TagRows
            /\ tagReq[q].on # NoTagged => tagReq[q].on \in chosen[l]
=============================================================================
