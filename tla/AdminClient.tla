------------------------------ MODULE AdminClient ------------------------------
(***************************************************************************)
(* The reward dialog of the admin page (GrantEventRewardModal and the user *)
(* table that opens it).  The dialog stays mounted when it closes: its     *)
(* state, and what its earlier requests do when they are answered, carries *)
(* over to the next user it is opened for.                                 *)
(*                                                                         *)
(* Requests are served and answered in any order.  The table itself, which *)
(* only offers users to click, is left out.                                *)
(***************************************************************************)
EXTENDS Naturals, FiniteSets

CONSTANTS
    Recipients,     \* users of the table
    ManualEvents,   \* events findAllManualRewardEvents returns
    Repeatable,     \* those with allowMultipleRewards
    Nobody,         \* no user is selected, no options are loaded
    NoCode,         \* eventCode = ''
    MaxQuantity,    \* of tickets the admin may choose
    MaxOpenings,    \* bound of the times the dialog is opened
    MaxSubmits      \* bound of the grants it asks for

ASSUME AdminConstants ==
    /\ Repeatable \subseteq ManualEvents
    /\ Nobody \notin Recipients /\ NoCode \notin ManualEvents
    /\ MaxQuantity \in Nat \ {0} /\ MaxOpenings \in Nat /\ MaxSubmits \in Nat

VARIABLES
    openings,    \* how often the dialog has been opened
    dialog,      \* state of the dialog and of the page that opens it
    load,        \* the request for options of an opening
    submit,      \* requests for a grant, with what their closure keeps
    rewarded,    \* rewards the server has given, per user and event
    announced,   \* successes the page has shown, per user and event
    sent, told   \* grants asked for, and failures shown, since the last opening

adminVars == <<openings, dialog, load, submit, rewarded, announced, sent, told>>

Loads == 1..MaxOpenings
Submits == 1..MaxSubmits
Codes == ManualEvents \cup {NoCode}
Counts == [Recipients -> [ManualEvents -> 0..MaxSubmits]]

Unsent == [pc |-> "none", user |-> Nobody, granted |-> {}]
NotAsked == [pc |-> "none", user |-> Nobody, event |-> NoCode]

AdminTypeOK ==
    /\ openings \in 0..MaxOpenings
    /\ dialog \in [open : BOOLEAN, user : Recipients \cup {Nobody}, step : {"form", "confirm"},
                   loading : BOOLEAN, code : Codes, quantity : 0..MaxQuantity,
                   optionsOf : Recipients \cup {Nobody}, granted : SUBSET ManualEvents]
    /\ load \in [Loads -> [pc : {"none", "sent", "served", "answered"},
                           user : Recipients \cup {Nobody}, granted : SUBSET ManualEvents]]
    /\ submit \in [Submits -> [pc : {"none", "sent", "granted", "refused", "answered"},
                               user : Recipients \cup {Nobody}, event : Codes]]
    /\ rewarded \in Counts /\ announced \in Counts
    /\ sent \in 0..MaxSubmits /\ told \in 0..MaxSubmits

AdminInit ==
    /\ openings = 0
    /\ dialog = [open |-> FALSE, user |-> Nobody, step |-> "form", loading |-> FALSE,
                 code |-> NoCode, quantity |-> 0, optionsOf |-> Nobody, granted |-> {}]
    /\ load = [l \in Loads |-> Unsent]
    /\ submit = [s \in Submits |-> NotAsked]
    /\ rewarded = [u \in Recipients |-> [e \in ManualEvents |-> 0]]
    /\ announced = rewarded
    /\ sent = 0 /\ told = 0

-------------------------------------------------------------------------------
\* The table's button is clicked, and the effect on `open' resets the form and asks for the
\* options.  Those of the user before stay until they are answered.
HandleEventGrant(u) ==
    /\ ~dialog.open
    /\ openings < MaxOpenings
    /\ openings' = openings + 1
    /\ dialog' = [dialog EXCEPT !.open = TRUE, !.user = u, !.step = "form", !.loading = FALSE,
                                !.code = NoCode, !.quantity = 0]
    /\ load' = [load EXCEPT ![openings'] = [Unsent EXCEPT !.pc = "sent", !.user = u]]
    /\ sent' = 0 /\ told' = 0
    /\ UNCHANGED <<submit, rewarded, announced>>

\* Cancelled, or clicked beside: also while a grant is asked for.
OnClose ==
    /\ dialog.open
    /\ dialog' = [dialog EXCEPT !.open = FALSE]
    /\ UNCHANGED <<openings, load, submit, rewarded, announced, sent, told>>

\* getManualRewardEvents says which of the events the user has been rewarded for.
GetManualRewardEvents(l) ==
    /\ load[l].pc = "sent"
    /\ load' = [load EXCEPT ![l].pc = "served",
                            ![l].granted = {e \in ManualEvents : rewarded[load[l].user][e] > 0}]
    /\ UNCHANGED <<openings, dialog, submit, rewarded, announced, sent, told>>

OptionsArrive(l) ==
    /\ load[l].pc = "served"
    /\ dialog' = [dialog EXCEPT !.optionsOf = load[l].user, !.granted = load[l].granted]
    /\ load' = [load EXCEPT ![l].pc = "answered"]
    /\ UNCHANGED <<openings, submit, rewarded, announced, sent, told>>

OptionsFail(l) ==
    /\ load[l].pc \in {"sent", "served"}
    /\ dialog' = [dialog EXCEPT !.optionsOf = Nobody, !.granted = {}]
    /\ load' = [load EXCEPT ![l].pc = "answered"]
    /\ UNCHANGED <<openings, submit, rewarded, announced, sent, told>>

Loaded == dialog.optionsOf # Nobody
IsCs == Loaded /\ dialog.code \in Repeatable
CanSubmit == dialog.code # NoCode /\ (IsCs => dialog.quantity > 0)

\* The two views: the form, where the event and what it gives are chosen, ...
FormView == dialog.open /\ dialog.step = "form"

\* ... and the confirmation, whose buttons are locked while a grant is asked for.
ConfirmView == dialog.open /\ dialog.step = "confirm"
Unlocked == ConfirmView /\ ~dialog.loading

SelectEvent(e) ==
    /\ FormView
    /\ e # NoCode => Loaded /\ (e \in dialog.granted => e \in Repeatable)
    /\ dialog' = [dialog EXCEPT !.code = e]
    /\ UNCHANGED <<openings, load, submit, rewarded, announced, sent, told>>

\* Math.max(0, quantity - 1), Math.min(10, quantity + 1)
ChangeQuantity ==
    /\ FormView /\ IsCs
    /\ \E q \in {dialog.quantity - 1, dialog.quantity + 1} \cap (0..MaxQuantity) :
        dialog' = [dialog EXCEPT !.quantity = q]
    /\ UNCHANGED <<openings, load, submit, rewarded, announced, sent, told>>

SetStep ==
    /\ (FormView /\ CanSubmit) \/ Unlocked
    /\ dialog' = [dialog EXCEPT !.step = IF @ = "form" THEN "confirm" ELSE "form"]
    /\ UNCHANGED <<openings, load, submit, rewarded, announced, sent, told>>

HandleSubmit(s) ==
    /\ Unlocked
    /\ submit[s].pc = "none"
    /\ submit' = [submit EXCEPT ![s] = [pc |-> "sent", user |-> dialog.user, event |-> dialog.code]]
    /\ dialog' = [dialog EXCEPT !.loading = TRUE]
    /\ sent' = sent + 1
    /\ UNCHANGED <<openings, load, rewarded, announced, told>>

\* grantFeedbackRewardByUserId commits a reward, or refuses it.
GrantFeedbackReward(s) ==
    /\ submit[s].pc = "sent"
    /\ LET u == submit[s].user  e == submit[s].event
       IN \/ /\ e \in Repeatable \/ rewarded[u][e] = 0
             /\ rewarded' = [rewarded EXCEPT ![u][e] = @ + 1]
             /\ submit' = [submit EXCEPT ![s].pc = "granted"]
          \/ submit' = [submit EXCEPT ![s].pc = "refused"] /\ UNCHANGED rewarded
    /\ UNCHANGED <<openings, dialog, load, announced, sent, told>>

\* Mutant: the page announces the user and the event that are selected now.
AnnounceSelected(s) ==
    /\ submit[s].pc = "granted"
    /\ submit' = [submit EXCEPT ![s].pc = "answered"]
    /\ announced' = IF dialog.code = NoCode THEN announced
                    ELSE [announced EXCEPT ![dialog.user][dialog.code] = @ + 1]
    /\ dialog' = [dialog EXCEPT !.open = FALSE, !.loading = FALSE]
    /\ UNCHANGED <<openings, load, rewarded, sent, told>>

\* onSuccess, onClose and `finally' of a request: the names are the ones it was made with,
\* the dialog is whichever is open now.
GrantSucceeds(s) ==
    /\ submit[s].pc = "granted"
    /\ submit' = [submit EXCEPT ![s].pc = "answered"]
    /\ announced' = [announced EXCEPT ![submit[s].user][submit[s].event] = @ + 1]
    /\ dialog' = [dialog EXCEPT !.open = FALSE, !.loading = FALSE]
    /\ UNCHANGED <<openings, load, rewarded, sent, told>>

\* A refusal, or an answer that is lost, the reward being given or not.
GrantFails(s) ==
    /\ submit[s].pc \in {"granted", "refused"}
    /\ submit' = [submit EXCEPT ![s].pc = "answered"]
    /\ dialog' = [dialog EXCEPT !.loading = FALSE]
    /\ told' = told + 1
    /\ UNCHANGED <<openings, load, rewarded, announced, sent>>

AdminNext ==
    \/ \E u \in Recipients : HandleEventGrant(u)
    \/ OnClose \/ ChangeQuantity \/ SetStep
    \/ \E e \in Codes : SelectEvent(e)
    \/ \E l \in Loads : GetManualRewardEvents(l) \/ OptionsArrive(l) \/ OptionsFail(l)
    \/ \E s \in Submits :
        HandleSubmit(s) \/ GrantFeedbackReward(s) \/ GrantSucceeds(s) \/ GrantFails(s)

AdminSpec == AdminInit /\ [][AdminNext]_adminVars

-------------------------------------------------------------------------------
\* The page never announces a reward that the user it names was not given, though the dialog
\* may have been reopened for another one before the answer; and between two openings an
\* admin who is shown no failure has asked for one reward only, though answers to requests
\* of earlier openings unlock the button.
AnnouncedMeansGranted ==
    /\ \A u \in Recipients, e \in ManualEvents : announced[u][e] <= rewarded[u][e]
    /\ dialog.open => sent <= told + 1

\* `Load event options with userId for isGranted check' (Modal.js:57): when every request
\* for options is answered, the options the dialog offers are those of its user.
OptionsAreOfTheUser ==
    dialog.open /\ Loaded /\ (\A l \in Loads : load[l].pc \in {"none", "answered"})
        => dialog.optionsOf = dialog.user
=============================================================================
