------------------------------ MODULE MCServices ------------------------------
(* Small instances, for TLC, of the services a user calls himself: spending *)
(* and reading tickets, accounts and sessions, insight logs, streams.  They *)
(* share no state, so each runs alone; accounts run with every mishap, and  *)
(* once more below the sessions, where nothing goes wrong with them.        *)
EXTENDS TicketReads, Sessions, Insights, InterviewStreams, TLC

CONSTANTS purchase, weekly

VARIABLE part

\* A purchase, whose tickets never lapse, and a weekly grant, whose tickets lapse at 1.
MCUntil == (purchase :> Never) @@ (weekly :> 1)

ServicesTypeOK ==
    /\ part = "ledger" => ReadsTypeOK
    /\ part \in {"accounts", "sessions"} => SessionsTypeOK
    /\ part = "insights" => InsightsTypeOK
    /\ part = "streams" => StreamsTypeOK

ServicesInit ==
    /\ part \in {"ledger", "accounts", "sessions", "insights", "streams"}
    /\ ReadsInit /\ SessionsInit /\ InsightsInit /\ StreamsInit

\* Bound: an update changes the title or the description of a log, not both.
OneTextAtATime ==
    \A q \in Edits :
        edit'[q].log # Unset => Unset \in {edit'[q].asks.title, edit'[q].asks.description}

ServicesNext ==
    /\ UNCHANGED part
    /\ \/ part = "ledger" /\ ReadsNext /\ UNCHANGED <<allSessionVars, insightVars, streamVars>>
       \/ /\ part = "accounts" /\ AccountsNext
          /\ UNCHANGED <<readVars, sessionVars, insightVars, streamVars>>
       \/ /\ part = "sessions" /\ SessionsNext /\ mishaps' = {}
          /\ UNCHANGED <<readVars, insightVars, streamVars>>
       \/ /\ part = "insights" /\ InsightsNext /\ OneTextAtATime
          /\ UNCHANGED <<readVars, allSessionVars, streamVars>>
       \/ part = "streams" /\ StreamsNext /\ UNCHANGED <<readVars, allSessionVars, insightVars>>

ServicesSpec ==
    ServicesInit /\ [][ServicesNext]_<<part, readVars, allSessionVars, insightVars, streamVars>>

\* Users, logins and requests are alike, and so are titles and descriptions.  The type
\* invariant looks at the part that runs.
ServicesSymmetry == Permutations(Users) \cup Permutations(SignIns) \cup Permutations(Visits)
=============================================================================
