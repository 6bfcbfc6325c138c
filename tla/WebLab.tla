------------------------------- MODULE WebLab -------------------------------
(***************************************************************************)
(* A page of the web lab (internal/httpapi/web/app.js), the handlers it    *)
(* calls (internal/httpapi/server.go) and the runs behind them.            *)
(*                                                                         *)
(* The page submits experiments under an idempotency key it keeps until    *)
(* the submission is confirmed, polls the list and the selected run, and   *)
(* loads a run that is clicked.  A request may be lost, served after the   *)
(* page gave it up, or answered late.  What the pipeline does to a run is  *)
(* a step of ReplayPromise, which ReplayPipeline implements; a run is      *)
(* named by its key.                                                       *)
(***************************************************************************)
EXTENDS Lab, FiniteSets

CONSTANTS
    Keys,        \* idempotency keys, with the IDs of their runs
    None,        \* no key, no run
    Forms,       \* experiments as the page and other callers submit them
    Experiments, \* experiments a caller might submit
    NoInput,
    Versions,    \* datasets the program may be built with, by hash
    Fixtures,    \* the fixture of each version
    NoVersion,
    MaxWire,     \* bound: POSTs of the page on their way at once
    MaxClicks    \* bound: GETs after a click in flight at once

ASSUME WebLabAssumption ==
    /\ None \notin Keys
    /\ Forms \subseteq Experiments
    /\ Versions = DOMAIN Fixtures
    /\ \A v \in Versions : Fixtures[v] \in Fixture
    /\ NoInput \notin {NormalizeExperiment(e) : e \in Forms}
    /\ NoVersion \notin Versions
    /\ MaxWire \in Nat \ {0}
    /\ MaxClicks \in Nat \ {0}

Inputs == {NormalizeExperiment(e) : e \in Forms} \ {Refused}
NormalForms == {NormalizeExperiment(e) : e \in Experiments} \ {Refused}

Status == {"queued", "completed", "failed"}
Finished == {"completed", "failed"}

NoLoad == [id |-> None, answer |-> "none"]
NoView == [id |-> None, status |-> "none"]
NoPost == [key |-> None, form |-> NoInput, accepted |-> FALSE]

VARIABLES
    table,      \* the runs
    created,    \* their order of creation
    selected,   \* the selected run, also in the page's address
    current,    \* the run that is shown, and the status it is shown with
    pendingKey, \* the key of a submission that is not confirmed
    post,       \* the POST the page waits for; the button is disabled meanwhile
    busy,       \* is refreshRuns at work?
    load,       \* its GET of the selected run, and the status it was answered
    clicked,    \* GETs after a click in flight, with the status when it was sent
    wire,       \* POSTs on their way to the server
    fate        \* history: is a key drawn by the page, or settled, which is confirmed,
                \* forgotten by a reload, or another caller's?

runsTable == <<table, created>>
view == <<selected, current>>
submission == <<pendingKey, post, wire, fate>>
requests == <<busy, load, clicked>>
vars == <<runsTable, view, submission, requests>>

Promise == INSTANCE ReplayPromise WITH run <- table

TypeOK ==
    /\ DOMAIN table = Keys
    /\ \A k \in Keys : table[k].status \in Status \cup {"none"}
    /\ {created[i] : i \in DOMAIN created} =
           {k \in Keys : table[k].status # "none"}
    /\ selected \in Keys \cup {None}
    /\ current = NoView \/ (current.id \in Keys /\ current.status \in Status)
    /\ pendingKey \in Keys \cup {None}
    /\ post # NoPost => post.key = pendingKey /\ post.key \in Keys /\ post.form \in Forms
    /\ busy \in BOOLEAN
    /\ load # NoLoad => busy /\ load.answer \in Status \cup {"none"}
    /\ clicked \subseteq [id : Keys, status : Status]
    /\ wire \subseteq Keys \X Forms
    /\ fate \in [Keys -> {"unused", "drawn", "settled"}]

Init ==
    /\ Promise!Init
    /\ created = <<>>
    /\ selected = None
    /\ current = NoView
    /\ pendingKey = None
    /\ post = NoPost
    /\ busy = FALSE
    /\ load = NoLoad
    /\ clicked = {}
    /\ wire = {}
    /\ fate = [k \in Keys |-> "unused"]

-----------------------------------------------------------------------------
(* POST /api/v1/replays *)

\* Enqueue inserts the run under its key, with the dataset of that moment.
Insert(k, input) ==
    /\ Promise!Accept(k)
    /\ table'[k].input = input
    /\ created' = Append(created, k)

\* A request the page may have given up by now.  A form that does not normalise
\* (400), a key of another experiment (409) and a storage failure (503) change
\* nothing, and the page only hears that it failed: PostFails.
ServePost ==
    /\ \E r \in wire :
         LET k == r[1]  input == NormalizeExperiment(r[2]) IN
         /\ wire' = wire \ {r}
         /\ \/ /\ input # Refused
               /\ \/ Insert(k, input)
                  \/ table[k].input = input /\ UNCHANGED runsTable
               /\ post' = IF r = <<post.key, post.form>>
                          THEN [post EXCEPT !.accepted = TRUE] ELSE post
            \/ UNCHANGED <<runsTable, post>>
    /\ UNCHANGED <<view, pendingKey, fate, requests>>

\* Another caller of the API.
OtherCaller ==
    /\ \E k \in Keys, e \in Forms :
         /\ fate[k] = "unused"
         /\ NormalizeExperiment(e) # Refused
         /\ Insert(k, NormalizeExperiment(e))
         /\ fate' = [fate EXCEPT ![k] = "settled"]
    /\ UNCHANGED <<view, pendingKey, post, wire, requests>>

\* The pipeline finishes a run: a replay fails on a fixture that cannot be
\* valued, or because the dataset changed.
Finish ==
    /\ \E k \in Keys :
         \/ /\ Promise!Complete(k)
            /\ Replayable(Fixtures[table[k].hash], table[k].input)
         \/ Promise!Fail(k)
    /\ UNCHANGED <<created, view, submission, requests>>

-----------------------------------------------------------------------------
(* enqueue *)

\* A new random key, unless a submission is pending.
Submit(e) ==
    /\ post = NoPost
    /\ \E k \in Keys :
         /\ IF pendingKey # None THEN k = pendingKey ELSE fate[k] = "unused"
         /\ pendingKey' = k
         /\ post' = [key |-> k, form |-> e, accepted |-> FALSE]
         /\ wire' = wire \cup {<<k, e>>}
         /\ Cardinality(wire') <= MaxWire
         /\ fate' = [fate EXCEPT ![k] = "drawn"]
    /\ UNCHANGED <<runsTable, view, requests>>

\* selectRun
SelectRun(id) ==
    /\ selected' = id
    /\ current' = NoView

\* The run is selected; refreshRuns, called next or by the timer, is Refresh.
PostAccepted ==
    /\ post.accepted
    /\ pendingKey' = None
    /\ post' = NoPost
    /\ fate' = [fate EXCEPT ![post.key] = "settled"]
    /\ SelectRun(post.key)
    /\ UNCHANGED <<runsTable, wire, requests>>

\* Not the code: a submission that failed is over.
KeyAfterErrorDropped == None

\* The key the page has after a submission failed, for whatever reason.
KeyAfterError == pendingKey

\* An answer of 400, 409 or 503, or none: a connection that fails may leave the
\* request on its way, or lose its answer.
PostFails ==
    /\ post # NoPost
    /\ post' = NoPost
    /\ pendingKey' = KeyAfterError
    /\ UNCHANGED <<runsTable, view, wire, fate, requests>>

-----------------------------------------------------------------------------
(* refreshRuns, loadSelected and the list's buttons *)

Newest == created[Len(created)]

\* Not the code: a run that is not there is no error.
RunFoundAlways(id) == TRUE

\* 404 otherwise.
RunExists(id) == \E i \in DOMAIN created : created[i] = id

\* Every three seconds and after a submission, unless one is at work: the list
\* arrives, without a selection the newest run is selected, and loadSelected asks
\* for the selected run.  A list that fails, or is empty, leaves everything as it
\* was.
Refresh ==
    LET id == IF selected = None THEN Newest ELSE selected IN
    /\ ~busy
    /\ selected # None \/ created # <<>>
    /\ IF selected = None THEN SelectRun(id) ELSE UNCHANGED <<selected, current>>
    /\ busy' = TRUE
    /\ load' = [id |-> id, answer |-> "none"]
    /\ UNCHANGED <<runsTable, submission, clicked>>

\* GET /api/v1/runs/{id}
ServeLoad ==
    /\ load # NoLoad
    /\ load.answer = "none"
    /\ RunExists(load.id)
    /\ load' = [load EXCEPT !.answer = table[load.id].status]
    /\ UNCHANGED <<runsTable, view, submission, busy, clicked>>

\* Not the code: whatever arrives is shown.
AnyAnswer(id) == TRUE

\* The answer is about the run that is selected by now.
StillSelected(id) == selected = id

Show(id, status) ==
    current' = IF StillSelected(id) THEN [id |-> id, status |-> status] ELSE current

LoadArrives ==
    /\ load.answer # "none"
    /\ Show(load.id, load.answer)
    /\ load' = NoLoad
    /\ busy' = FALSE
    /\ UNCHANGED <<runsTable, selected, submission, clicked>>

\* Not the code: a refresh that failed does not end.
BusyAfterFailureStays == busy

\* finally
BusyAfterFailure == FALSE

\* The run is not there (404), storage fails, or no answer arrives.
LoadFails ==
    /\ load # NoLoad
    /\ load' = NoLoad
    /\ busy' = BusyAfterFailure
    /\ UNCHANGED <<runsTable, view, submission, clicked>>

\* A click in the list, where any run may be: it is selected and loaded.
Click ==
    /\ \E id \in Keys :
         /\ RunExists(id)
         /\ SelectRun(id)
         /\ clicked' = clicked \cup {[id |-> id, status |-> table[id].status]}
    /\ Cardinality(clicked') <= MaxClicks
    /\ UNCHANGED <<runsTable, submission, busy, load>>

\* That load ends: with a failure, or with the run as it was when the request was
\* served, between the click and now.
ClickedEnds ==
    /\ \E c \in clicked :
         /\ clicked' = clicked \ {c}
         /\ \/ \E status \in {c.status, table[c.id].status} : Show(c.id, status)
            \/ UNCHANGED current
    /\ UNCHANGED <<runsTable, selected, submission, busy, load>>

\* The page is loaded again: it keeps its address, its requests stay on their
\* way, and a pending key is forgotten.
Reload ==
    /\ current' = NoView
    /\ pendingKey' = None
    /\ post' = NoPost
    /\ fate' = [k \in Keys |-> IF k = pendingKey THEN "settled" ELSE fate[k]]
    /\ busy' = FALSE
    /\ load' = NoLoad
    /\ clicked' = {}
    /\ UNCHANGED <<runsTable, selected, wire>>

-----------------------------------------------------------------------------
Next ==
    \/ ServePost \/ OtherCaller \/ Finish
    \/ \E e \in Forms : Submit(e)
    \/ PostFails \/ PostAccepted
    \/ Refresh \/ ServeLoad \/ LoadArrives \/ LoadFails
    \/ Click \/ ClickedEnds
    \/ Reload

Spec == Init /\ [][Next]_vars

\* The timer goes on, a request is answered or fails within the server's time
\* limit, and reading the list and the run does not fail for ever.
Fairness ==
    /\ SF_vars(Refresh)
    /\ SF_vars(ServeLoad)
    /\ SF_vars(LoadArrives)

FairSpec == Spec /\ Fairness

-----------------------------------------------------------------------------
(* What must hold *)

\* The page creates one run per submission, however often it is retried and
\* whenever the server gets round to a request: a key's run is confirmed, or its
\* key is still kept for the retry, unless the page was reloaded in between.
RunsAreAccountedFor ==
    \A k \in Keys :
        table[k].status # "none" =>
            fate[k] = "settled" \/ k = pendingKey

\* What is shown is the selected run, and an outcome that is shown is the run's,
\* in whatever order the answers to earlier selections arrive.
ShownIsSelected ==
    current # NoView =>
        /\ current.id = selected
        /\ current.status \in {"queued", table[selected].status}

Snapshots(v, e) == ReplayExperiment(Fixtures[v], e).snapshots
Decisions(v, e) == ReplayExperiment(Fixtures[v], e).decisions

\* The cells of a replay: an observation and a sleeve.
Cells(v) == (DOMAIN Fixtures[v].observations) \X (DOMAIN Fixtures[v].sleeves)

\* Every position is marked at every observation, by a quote of its symbol that was
\* then known and at most MaxAge old.
Marked(v, e) ==
    \A c \in Cells(v) :
        LET snap == Snapshots(v, e)[c[1]][c[2]]
            held == Fixtures[v].sleeves[c[2]].positions IN
        \A i \in DOMAIN held :
            \E j \in DOMAIN snap.quotes :
                /\ snap.quotes[j].symbol = held[i].symbol
                /\ snap.at - MaxAge <= snap.quotes[j].at /\ snap.quotes[j].at <= snap.at

\* Two experiments agree on every observation but the last, and there on the
\* sleeves none of whose symbols either shocks.
DifferOnlyByScenario(v, e, f) ==
    \A c \in Cells(v) :
        \/ Snapshots(v, e)[c[1]][c[2]] = Snapshots(v, f)[c[1]][c[2]]
        \/ /\ c[1] = Len(Fixtures[v].observations)
           /\ LET held == Fixtures[v].sleeves[c[2]].positions IN
              \E i \in DOMAIN held : held[i].symbol \in DOMAIN e.shocks \cup DOMAIN f.shocks

\* With a lower threshold, what is put up for review still is.
LowerThresholdReviewsMore(v, e, f) ==
    e.shocks = f.shocks /\ e.threshold <= f.threshold =>
        \A c \in Cells(v) :
            Decisions(v, f)[c[1]][c[2]] = "review" => Decisions(v, e)[c[1]][c[2]] = "review"

\* The replays that mark everything and compare with every other of their dataset.
Sound ==
    {r \in {<<v, e>> : v \in Versions, e \in NormalForms} :
        /\ Marked(r[1], r[2])
        /\ \A f \in NormalForms : Replayable(Fixtures[r[1]], f) =>
             /\ DifferOnlyByScenario(r[1], r[2], f)
             /\ LowerThresholdReviewsMore(r[1], r[2], f)
             /\ LowerThresholdReviewsMore(r[1], f, r[2])}

\* No completed run values a sleeve in part, and among the runs of one dataset its
\* difference from any other comes from the scenario's prices or the review threshold
\* (Value and ReplayExperiment).  Runs of two datasets differ by more than that.
ResultsAreComparable ==
    \A k \in Keys :
        table[k].status = "completed" => <<table[k].hash, table[k].input>> \in Sound

\* The outcome of the selected run is shown at last, also after polls that failed
\* and answers that came late, unless another run is selected.
SelectedIsShown ==
    \A k \in Keys :
        selected = k /\ table[k].status \in Finished ~>
            selected # k \/ current = [id |-> k, status |-> table[k].status]
=============================================================================
