-------------------------------- MODULE WebPage --------------------------------
(***************************************************************************)
(* The page of the web interface: Home.js with its EnvPicker.js, EnvForm.js, *)
(* RecordForm.js and RecordTable.js, in one tab of a browser.  A gesture of *)
(* the user and the callback of a request run to their end; between them   *)
(* anything may happen.                                                    *)
(***************************************************************************)
EXTENDS RecordTable

CONSTANTS Inputs,        \* what may be typed as the name of a new environment
          Sanitized,     \* the name that is left of it
          MaxGestures,   \* bound: gestures of the user
          MaxInFlight    \* bound: requests under way when the user does something

ASSUME SanitizedAssumption == Sanitized \in [Inputs -> EnvNames]

VARIABLES home,     \* state of Home: env, isLoading, createEnv
          picker,   \* state of EnvPicker: current, envList
          gestures

pageVars == <<home, picker, rows, formVars>>
vars == <<doc, clock, net, history, form, inputs, rows, home, picker, gestures>>

\* Mutant of Picker: it does not start on the environment of the page.
PickerOnDefault(env) == [current |-> DefaultEnv, envList |-> << >>]
Picker(env) == [current |-> env, envList |-> << >>]
ListEnvs == Request([kind |-> "envs"], "envList")
Activate(env) == Request([kind |-> "setActive", env |-> env], "activated")
GetActive == Request([kind |-> "active"], "loaded")

\* History: the form for environments closes before a creation or an activation ends.
Closing(reqs) ==
    IF \E i \in DOMAIN reqs : reqs[i].then \in {"created", "activated"}
    THEN {"cancelled"} ELSE {}

\* Page and server only hold environments, names and values there are: what is
\* typed reaches the document only as HostnameV1 decodes it.
TypeOK ==
    /\ doc \in [activeEnv : EnvNames, envs : Seq(Env)]
    /\ history \subseteq Events
    /\ form.hostname \in Names /\ form.value \in Value
    /\ rows \in Seq(Row)
    /\ home \in [isLoading : BOOLEAN, createEnv : BOOLEAN, env : EnvNames]
    /\ picker \in [current : EnvNames, envList : Seq(EnvNames)]

NewHome == [isLoading |-> TRUE, createEnv |-> FALSE, env |-> DefaultEnv]

\* componentDidMount of Home asks for the active environment.
Init ==
    /\ doc \in InitialFiles
    /\ clock = FirstClock
    /\ net = <<GetActive>>
    /\ history = {}
    /\ gestures = 0
    /\ home = NewHome
    /\ picker = Picker(DefaultEnv)
    /\ rows = << >>
    /\ form = NewForm
    /\ inputs = NoInputs
-----------------------------------------------------------------------------
(***************************************************************************)
(* The callbacks.                                                          *)
(***************************************************************************)
\* Mutant of ActiveArrived: the spinner stays.
ActiveArrivedStuck(i) ==
    /\ net[i].then = "loaded"
    /\ Post(Rest(i), << >>, {})
    /\ UNCHANGED pageVars

\* Picker and table are mounted and load their data.  After a failure the page
\* stays as it is.
ActiveArrived(i) ==
    /\ net[i].then = "loaded"
    /\ IF Succeeded(i)
       THEN LET env == net[i].reply.data
            IN  /\ home' = [home EXCEPT !.isLoading = FALSE, !.env = env]
                /\ picker' = Picker(env)
                /\ Post(Rest(i), <<ListEnvs, Find(env)>>, {})
       ELSE /\ Post(Rest(i), << >>, {})
            /\ UNCHANGED <<home, picker>>
    /\ UNCHANGED <<rows, formVars>>

EnvListArrived(i) ==
    /\ net[i].then = "envList"
    /\ picker' = IF Succeeded(i) THEN [picker EXCEPT !.envList = net[i].reply.data] ELSE picker
    /\ Post(Rest(i), << >>, {})
    /\ UNCHANGED <<home, rows, formVars>>

TableArrived(i) ==
    /\ net[i].then = "rows"
    /\ RowsArrived(i)
    /\ UNCHANGED <<home, picker, formVars>>

\* Mutant of Activated: the page changes to the environment although the
\* server has refused it.
ActivatedAnyway(i) ==
    /\ net[i].then = "activated"
    /\ home' = [home EXCEPT !.env = net[i].op.env, !.createEnv = FALSE]
    /\ picker' = IF home.createEnv THEN Picker(net[i].op.env) ELSE picker
    /\ Post(Rest(i), (IF home.createEnv THEN <<ListEnvs>> ELSE << >>) \o <<Find(net[i].op.env)>>, {})
    /\ UNCHANGED <<rows, formVars>>

\* onChangeEnv: the page follows the server; the picker is a new one when the
\* form for environments was open, and is left as it is otherwise.
Activated(i) ==
    /\ net[i].then = "activated"
    /\ IF Succeeded(i)
       THEN LET env == net[i].op.env
            IN  /\ home' = [home EXCEPT !.env = env, !.createEnv = FALSE]
                /\ picker' = IF home.createEnv THEN Picker(env) ELSE picker
                /\ Post(Rest(i),
                        (IF home.createEnv THEN <<ListEnvs>> ELSE << >>) \o <<Find(env)>>,
                        IF home.createEnv THEN Closing(Rest(i)) ELSE {})
       ELSE /\ Post(Rest(i), << >>, {"refused"})
            /\ UNCHANGED <<home, picker>>
    /\ UNCHANGED <<rows, formVars>>

\* onCreate: also when the form has been closed since.
Created(i) ==
    /\ net[i].then = "created"
    /\ Post(Rest(i), IF Succeeded(i) THEN <<Activate(net[i].op.env)>> ELSE << >>, {})
    /\ UNCHANGED pageVars

\* Mutant of Deleted: the default environment is not activated.
DeletedOnly(i) ==
    /\ net[i].then = "deleted"
    /\ Post(Rest(i), << >>, {"deleted"})
    /\ UNCHANGED pageVars

\* onDelete of Home.
Deleted(i) ==
    /\ net[i].then = "deleted"
    /\ IF Succeeded(i)
       THEN Post(Rest(i), <<Activate(DefaultEnv)>>, {"deleted"})
       ELSE Post(Rest(i), << >>, {})
    /\ UNCHANGED pageVars

\* onUpdate of Home: the table is loaded again, and the list of the picker.
\* There is no picker while the form for environments is open: the callback
\* ends in a TypeError there.
Added(i) ==
    /\ net[i].then = "added"
    /\ Post(Rest(i),
            IF ~Succeeded(i) THEN << >>
            ELSE <<Find(home.env)>> \o (IF home.createEnv THEN << >> ELSE <<ListEnvs>>), {})
    /\ UNCHANGED pageVars

RecordRemoved(i) ==
    /\ net[i].then = "removed"
    /\ Removed(i, home.env)
    /\ UNCHANGED <<home, picker, formVars>>

\* The callbacks of updateRecord only notify; those of a component or a page
\* that is gone change nothing.
Ignored(i) ==
    /\ net[i].then = "nothing"
    /\ Post(Rest(i), << >>, {})
    /\ UNCHANGED pageVars

Deliver(i) ==
    /\ Arrived(i)
    /\ \/ ActiveArrived(i) \/ EnvListArrived(i) \/ TableArrived(i) \/ Activated(i)
       \/ Created(i) \/ Deleted(i) \/ Added(i) \/ RecordRemoved(i) \/ Ignored(i)
    /\ UNCHANGED <<serverVars, gestures>>
-----------------------------------------------------------------------------
(***************************************************************************)
(* The gestures of the user.                                               *)
(***************************************************************************)
Gesture ==
    /\ ~home.isLoading
    /\ gestures < MaxGestures
    /\ Len(net) < MaxInFlight
    /\ gestures' = gestures + 1

\* What the select element shows: its first option when none has the value.
Shown ==
    CASE picker.current \in {picker.envList[i] : i \in DOMAIN picker.envList} -> {picker.current}
      [] picker.envList # << >> -> {picker.envList[1]}
      [] OTHER -> {}

\* handleChanges of EnvPicker, then onChangeEnv of Home.
SelectEnv ==
    /\ Gesture
    /\ \E i \in DOMAIN picker.envList :
          /\ picker.envList[i] \notin Shown
          /\ picker' = [picker EXCEPT !.current = picker.envList[i]]
          /\ Ajax(Activate(picker.envList[i]))
    /\ UNCHANGED <<home, rows, formVars>>

\* Mutant of DeleteCurrent: the default environment may be deleted too.
DeleteAnyEnv ==
    /\ Gesture
    /\ Ajax(Request([kind |-> "removeEnv", env |-> picker.current], "deleted"))
    /\ UNCHANGED pageVars

DeleteCurrent ==
    /\ Gesture
    /\ picker.current # DefaultEnv
    /\ Ajax(Request([kind |-> "removeEnv", env |-> picker.current], "deleted"))
    /\ UNCHANGED pageVars

\* onToggle: the picker goes away, and the answer to its reload with it.
OpenEnvForm ==
    /\ Gesture
    /\ home' = [home EXCEPT !.createEnv = TRUE]
    /\ net' = Abandon(net, {"envList"})
    /\ UNCHANGED <<history, picker, rows, formVars>>

\* onCancel: a new picker appears.
CancelEnvForm ==
    /\ Gesture
    /\ home' = [home EXCEPT !.createEnv = FALSE]
    /\ picker' = Picker(home.env)
    /\ Post(net, <<ListEnvs>>, Closing(net))
    /\ UNCHANGED <<rows, formVars>>

\* createEnvironment: a name of which nothing is left is not sent.
CreateEnvironment ==
    /\ Gesture
    /\ \E text \in Inputs :
          /\ Sanitized[text] # DefaultEnv
          /\ Ajax(Request([kind |-> "addEnv", env |-> Sanitized[text], hosts |-> << >>],
                          "created"))
    /\ UNCHANGED pageVars

SubmitForm ==
    /\ Gesture
    /\ HandleSubmit(home.env)
    /\ UNCHANGED <<home, picker, rows>>

EditForm ==
    /\ Gesture
    /\ FormNext
    /\ UNCHANGED <<net, history, home, picker, rows>>

EditRow ==
    /\ Gesture
    /\ \E k \in DOMAIN rows :
          SwapEditionMode(k) \/ HandleChange(k) \/ HandleRowNumber(k)
             \/ HandleIpChange(k) \/ HandleTargetChange(k)
    /\ UNCHANGED <<net, history, home, picker, formVars>>

SaveRow ==
    /\ Gesture
    /\ \E k \in DOMAIN rows : UpdateRecord(k, home.env)
    /\ UNCHANGED <<home, picker, formVars>>

DeleteRow ==
    /\ Gesture
    /\ \E k \in DOMAIN rows : DeleteRecord(k, home.env)
    /\ UNCHANGED <<home, picker, formVars>>

\* The page is loaded anew.  Requests the server already has are still handled.
Refresh ==
    /\ Fault("refreshed")
    /\ home' = NewHome
    /\ picker' = Picker(DefaultEnv)
    /\ rows' = << >>
    /\ form' = NewForm
    /\ inputs' = NoInputs
    /\ Post(Abandon(net, {net[i].then : i \in DOMAIN net}), <<GetActive>>, {"refreshed"})
    /\ UNCHANGED gestures
-----------------------------------------------------------------------------
\* Either the picker is there or the form for environments.
UsePicker == ~home.createEnv /\ (SelectEnv \/ DeleteCurrent \/ OpenEnvForm)
UseEnvForm == home.createEnv /\ (CreateEnvironment \/ CancelEnvForm)
UseRecords == SubmitForm \/ EditForm \/ EditRow \/ SaveRow \/ DeleteRow

User == UsePicker \/ UseEnvForm \/ UseRecords \/ Refresh

Network == (\E i \in DOMAIN net : Handle(i) \/ Lose(i)) \/ Foreign

Next ==
    \/ User /\ UNCHANGED serverVars
    \/ Network /\ UNCHANGED <<pageVars, gestures>>
    \/ \E i \in DOMAIN net : Deliver(i)

Spec == Init /\ [][Next]_vars

\* The server answers, and the browser runs the callbacks; the user may stop.
Fairness ==
    /\ WF_vars(\E i \in DOMAIN net : Handle(i) /\ UNCHANGED <<pageVars, gestures>>)
    /\ WF_vars(\E i \in DOMAIN net : Deliver(i))

FairSpec == Spec /\ Fairness
-----------------------------------------------------------------------------
\* Nothing is under way on an open page, and none of events has happened.
Settled(events) == net = << >> /\ ~home.isLoading /\ history \cap events = {}

\* A page at rest is on the environment that the server has active, whatever
\* was selected, created, deleted or refused, unless activations overlapped, an
\* answer was lost, the page was loaded anew or another client interfered.
PageOnActiveEnv ==
    Settled({"active", "lost", "refreshed", "foreign"}) => home.env = doc.activeEnv

\* Deleting environments in the page, the active one included, leaves an active
\* environment that exists, also when requests overlap: removing it and
\* activating the default one are two requests, and only a loss, a new load of
\* the page or another client between them leaves the resolver without one.
ActiveEnvExists ==
    Settled({"lost", "refreshed", "foreign"}) => HasActiveEnv(doc)

\* The picker of a page at rest shows the environment the records go to, unless
\* an environment was deleted, an activation refused or lost, activations
\* overlapped or the form for environments was closed during one or a creation.
PickerOnPageEnv ==
    /\ Settled({"active", "lost", "refused", "deleted", "cancelled"})
    /\ ~home.createEnv
    => picker.current = home.env

\* The table of a page at rest has the records of the page's environment, and
\* every row that was not edited shows what the server stores, unless requests
\* about records overlapped or were lost, a reload was refused or another client
\* interfered.
TableShowsEnv ==
    Settled({"table", "lost", "refused", "refreshed", "foreign"}) =>
        LET stored == doc.envs[GetEnv(doc, home.env)].hostnames
        IN  /\ HasEnv(doc, home.env)
            /\ Len(rows) = Len(stored)
            /\ \A k \in DOMAIN rows :
                  /\ rows[k].id = stored[k].id
                  /\ rows[k].clean => /\ rows[k].hostname = stored[k].hostname
                                      /\ rows[k].value = stored[k].entry

Ids(c) == {IdAt(c, p) : p \in EntryPositions(c)}

RemovesItsRecord(op) ==
    /\ op.kind = "removeHostname"
    /\ op.certain
    /\ history \cap {"table", "lost", "foreign"} = {}
    => Ids(doc) \ Ids(doc') \subseteq {op.id}

\* A deletion takes away the record that its row shows, or none, also when the
\* page has changed to another environment before the server sees the request.
\* It needs a table that nobody has edited (cancelling keeps what was typed),
\* that is of the page's environment and has the name once, and records that no
\* overlapping or unanswered request and no other client has changed.
DeletesShownRecord == [][\A i \in DOMAIN net : Handle(i) => RemovesItsRecord(net[i].op)]_vars

\* A page that is being loaded opens, unless an answer is lost.
PageOpens == home.isLoading ~> (~home.isLoading \/ "lost" \in history)

\* While the active environment does not exist, the page is about to activate
\* the default one.
ActiveEnvRestored ==
    ~HasActiveEnv(doc) ~>
        (HasActiveEnv(doc) \/ history \cap {"lost", "refreshed", "foreign"} # {})
===============================================================================
