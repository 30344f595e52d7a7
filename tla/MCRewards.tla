------------------------------ MODULE MCRewards ------------------------------
(* Small instances, for TLC, of what gives tickets away and tells of it:    *)
(* event rewards, rewarded feedback, the weekly job, the notices; and of    *)
(* what stands beside the service: the page of the admins, the catalogue,   *)
(* the tags of insight logs, the smoke script.  They share no state but the *)
(* rows Feedback and AdminClient model themselves, so each runs alone.      *)
EXTENDS EventReward, Feedback, WeeklyTickets, GrantNotices, AdminClient, AdminTables,
        ProductSeed, ActivityTags, SmokeRun, TLC

VARIABLE part

MCUntil == [s \in Sources |-> Never]

\* A document with a path of each sort the script treats differently.
MCPath(path, methods, param, content) ==
    [path |-> path, methods |-> methods, param |-> param, content |-> content]
MCDocument == <<
    MCPath("oauth", {"GET"}, "none", "none"),
    MCPath("experiences", {"POST"}, "none", "json"),
    MCPath("experience", {"GET", "PATCH", "DELETE"}, "experienceId", "json"),
    MCPath("payments", {"POST"}, "none", "json"),
    MCPath("payment", {"POST"}, "paymentId", "none"),
    MCPath("extract", {"POST"}, "none", "multipart") >>
MCArgs ==
    {[help |-> FALSE, internal |-> i, mutate |-> m, secret |-> TRUE, file |-> "none", only |-> o] :
        i \in BOOLEAN, m \in BOOLEAN,
        o \in {{"oauth", "experiences", "experience"}, {"payments", "payment", "extract", "rag-data"}}}
    \cup {[help |-> h, internal |-> i, mutate |-> TRUE, secret |-> s, file |-> f, only |-> {"extract"}] :
        h \in BOOLEAN, i \in BOOLEAN, s \in BOOLEAN, f \in {"given", "missing"}}

MCKeywords == {Clients, Clients \ {1}}

ticketVars == <<allVars, feedbackVars, weeklyVars, noticeVars>>
pageVars == <<adminVars, tableVars>>
otherVars == <<seedVars, tagVars, smokeVars>>

RewardsTypeOK ==
    /\ RewardTypeOK /\ FeedbackTypeOK /\ WeeklyTypeOK /\ NoticesTypeOK /\ AdminTypeOK
    /\ TablesTypeOK /\ SeedTypeOK /\ TagsTypeOK /\ SmokeTypeOK

\* Only the part that runs has more than one initial state.
RewardsInit ==
    /\ part \in {"events", "feedback", "weekly", "notices", "admin", "tables", "seed", "tags",
                 "smoke"}
    /\ RewardInit /\ FeedbackInit /\ WeeklyInit /\ NoticesInit /\ AdminInit /\ TablesInit
    /\ SeedInit /\ TagsInit /\ SmokeInit
    /\ part = "feedback" \/ ~onlyOne
    /\ part = "weekly" \/ actives = {}
    /\ part = "seed" \/ (profile = "prod" /\ Existing(product) = {})
    /\ part = "smoke" \/ (smoke.pc = "helped" /\ args.file = "given" /\ api.alive = {}
                          /\ args.secret /\ ~args.internal)

RewardsNext ==
    /\ UNCHANGED part
    /\ \/ /\ part = "events" /\ RewardNext
          /\ UNCHANGED <<feedbackVars, weeklyVars, noticeVars, pageVars, otherVars>>
       \/ /\ part = "feedback" /\ FeedbackNext
          /\ UNCHANGED <<allVars, weeklyVars, noticeVars, pageVars, otherVars>>
       \/ /\ part = "weekly" /\ WeeklyNext
          /\ UNCHANGED <<allVars, feedbackVars, noticeVars, pageVars, otherVars>>
       \/ /\ part = "notices" /\ NoticesNext
          /\ UNCHANGED <<allVars, feedbackVars, weeklyVars, pageVars, otherVars>>
       \/ /\ part = "admin" /\ AdminNext
          /\ UNCHANGED <<ticketVars, tableVars, otherVars>>
       \/ /\ part = "tables" /\ TablesNext
          /\ UNCHANGED <<ticketVars, adminVars, otherVars>>
       \/ /\ part = "seed" /\ SeedNext
          /\ UNCHANGED <<ticketVars, pageVars, tagVars, smokeVars>>
       \/ /\ part = "tags" /\ TagsNext
          /\ UNCHANGED <<ticketVars, pageVars, seedVars, smokeVars>>
       \/ /\ part = "smoke" /\ SmokeNext
          /\ UNCHANGED <<ticketVars, pageVars, seedVars, tagVars>>

RewardsSpec ==
    RewardsInit /\ [][RewardsNext]_<<part, ticketVars, pageVars, otherVars>>
=============================================================================
