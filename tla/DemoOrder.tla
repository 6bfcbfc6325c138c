------------------------------ MODULE DemoOrder ------------------------------
(***************************************************************************)
(* The life of the one-time Demo BTC order                                 *)
(* (internal/platform/demo_strategy.go).                                   *)
(*                                                                         *)
(* A run is one row of demo_strategy_runs, written by DemoPreview under an *)
(* idempotency key.  HTTP handlers preview, execute and reconcile runs     *)
(* concurrently, a background sweeper reconciles whatever is unresolved,   *)
(* the process may crash between any two steps, every database transaction *)
(* may fail or commit without the caller learning it, and the broker and   *)
(* the network decide the fate of a POST on their own.                     *)
(*                                                                         *)
(* Each database transaction, each row read and each broker call is one    *)
(* step, because other processes run between them.  Everything the broker  *)
(* does is external: it is modelled from what the client code expects.     *)
(***************************************************************************)
EXTENDS Naturals, FiniteSets

CONSTANTS
    Runs,             \* idempotency keys; a key names at most one run row
    NoRun,            \* "no run", for a process that is idle
    Handlers,         \* HTTP handler goroutines
    Sweepers,         \* the goroutine of BrokerService.Run (or none)
    ReferenceIndexed, \* does the broker find an order by its request reference?
    Reported,         \* classes of broker status an order in flight may move to
    ForeignAnswers,   \* may a lookup return an order ID that is not the run's?
    SlowCommit,       \* may the 30 s window elapse while the POST is on the wire?
    MaxCrashes        \* bound on the number of process crashes

Procs == Handlers \cup Sweepers

\* Broker status IDs as demoLookupState groups them: inflight is 1, 2, 11, 12;
\* partial is 5, 10; filled is 3; rejected is 4; odd is any other.
Class == {"inflight", "partial", "filled", "rejected", "odd"}

ASSUME ConstantsAssumption ==
    /\ NoRun \notin Runs
    /\ Sweepers \cap Handlers = {}
    /\ Reported \subseteq Class
    /\ ReferenceIndexed \in BOOLEAN
    /\ ForeignAnswers \in BOOLEAN
    /\ SlowCommit \in BOOLEAN
    /\ MaxCrashes \in Nat

-----------------------------------------------------------------------------
(* Statuses of a row, classes of broker status, and what a row records.    *)

\* The statuses under the unique partial index demo_strategy_one_active.
Active == {"submitting", "accepted", "unknown", "partially_filled"}
Terminal == {"hold", "filled", "rejected"}
Status == {"none", "ready"} \cup Active \cup Terminal

OrderId == {"none", "own", "other"}

Row == [status : Status, orderId : OrderId,
        class : Class \cup {"none"}, positions : BOOLEAN]

NoRow == [status |-> "none", orderId |-> "none",
          class |-> "none", positions |-> FALSE]

EventKind == {"decision", "hold", "submit_intent", "submission_accepted",
              "submission_unknown", "submission_rejected",
              "broker_lookup", "broker_lookup_unknown"}

SubmissionEvent(outcome) ==
    CASE outcome = "accepted" -> "submission_accepted"
      [] outcome = "rejected" -> "submission_rejected"
      [] OTHER                -> "submission_unknown"

\* Not the code: the broker's own word is stored as the status.
LookupStateUnmapped(class, executed) == IF executed THEN "filled" ELSE class

\* Not the code: a rejection is final even when positions were executed.
LookupStateIgnoringExecutions(class, executed) ==
    CASE class = "filled"   -> "filled"
      [] class = "partial"  -> "partially_filled"
      [] class = "rejected" -> "rejected"
      [] class = "inflight" -> "accepted"
      [] OTHER              -> "unknown"

\* The status a broker answer stands for.
LookupState(class, executed) ==
    CASE class = "filled"   -> IF executed THEN "filled" ELSE "unknown"
      [] class = "partial"  -> "partially_filled"
      [] class = "rejected" -> IF executed THEN "unknown" ELSE "rejected"
      [] class = "inflight" -> "accepted"
      [] OTHER              -> "unknown"

Outcome == {"accepted", "rejected", "unknown"}
Verdict == {"none", "plan", "hold"} \cup Outcome
Fate == {"none", "sent", "accepted", "refused", "lost"}
PC == {"idle", "insert", "evaluate", "decide", "post", "await", "record",
       "reread", "lookup", "apply", "mark"}

-----------------------------------------------------------------------------
VARIABLES
    row,      \* the table demo_strategy_runs
    trail,    \* the event kinds a run has in demo_strategy_events
    expired,  \* ready runs whose 60 s have passed
    stale,    \* submitting runs whose updated_at is 30 s old
    pc, job,  \* what each process is doing, and for which run
    verdict,  \* the evaluation or the submission outcome a process holds
    copy,     \* the row a reconciler read, then the row it will write
    wire,     \* what became of a run's POST
    book,     \* the broker's order for a run, by class of its status
    execs,    \* runs whose order has position executions at the broker
    closed,   \* runs whose position was closed at the broker
    posts,    \* history: how many times a run's order was posted
    bound,    \* is a Demo client bound (BrokerService.bound["demo"])?
    crashes   \* history: crashes so far

tables == <<row, trail, expired, stale>>
procs  == <<pc, job, verdict, copy>>
broker == <<wire, book, execs, closed, posts>>
host   == <<bound, crashes>>
vars   == <<tables, procs, broker, host>>

TablesType ==
    /\ row \in [Runs -> Row]
    /\ trail \in [Runs -> SUBSET EventKind]
    /\ expired \subseteq Runs
    /\ stale \subseteq Runs

\* An idle process, and only an idle one, has no run.
ProcsType ==
    /\ pc \in [Procs -> PC]
    /\ job \in [Procs -> Runs \cup {NoRun}]
    /\ \A p \in Procs : pc[p] = "idle" <=> job[p] = NoRun
    /\ verdict \in [Procs -> Verdict]
    /\ \A p \in Procs : pc[p] = "record" => verdict[p] \in Outcome
    /\ copy \in [Procs -> Row]

BrokerType ==
    /\ wire \in [Runs -> Fate]
    /\ book \in [Runs -> Class \cup {"none"}]
    /\ execs \subseteq Runs
    /\ closed \subseteq Runs
    /\ posts \in [Runs -> Nat]

HostType == bound \in BOOLEAN /\ crashes \in Nat

TypeOK == TablesType /\ ProcsType /\ BrokerType /\ HostType

Init ==
    /\ row = [r \in Runs |-> NoRow]
    /\ trail = [r \in Runs |-> {}]
    /\ expired = {}
    /\ stale = {}
    /\ pc = [p \in Procs |-> "idle"]
    /\ job = [p \in Procs |-> NoRun]
    /\ verdict = [p \in Procs |-> "none"]
    /\ copy = [p \in Procs |-> NoRow]
    /\ wire = [r \in Runs |-> "none"]
    /\ book = [r \in Runs |-> "none"]
    /\ execs = {}
    /\ closed = {}
    /\ posts = [r \in Runs |-> 0]
    /\ bound = FALSE
    /\ crashes = 0

-----------------------------------------------------------------------------
(* Steps of a process *)

\* p goes on with run r at label l, holding verdict v and row copy c.
Goto(p, l, r, v, c) ==
    /\ pc' = [pc EXCEPT ![p] = l]
    /\ job' = [job EXCEPT ![p] = r]
    /\ verdict' = [verdict EXCEPT ![p] = v]
    /\ copy' = [copy EXCEPT ![p] = c]

Return(p) == Goto(p, "idle", NoRun, "none", NoRow)

SetStatus(r, s) == row' = [row EXCEPT ![r].status = s]
AddEvent(r, kind) == trail' = [trail EXCEPT ![r] = @ \cup {kind}]

\* Not the code: an UPDATE whose WHERE clause names only the run's ID.
ByIdAlone(r) == r \in Runs

\* The WHERE clauses of the four updates that follow the intent.
HoldWhere(r) == row[r].status = "ready"
RecordWhere(r) == row[r].status = "submitting"
MarkWhere(r) == row[r].status = "submitting"
LookupWhere(r) == row[r].status \in Active

-----------------------------------------------------------------------------
(* The provider account, as evaluateDemo reads it *)

\* The order of r, or the position it opened, is visible in the account.
Occupies(r) ==
    /\ r \notin closed
    /\ book[r] \in Class
    /\ book[r] = "rejected" => r \in execs

AccountEmpty == \A r \in Runs : ~Occupies(r)

\* evaluateDemo yields a plan only from a bound client and an empty account;
\* every other gate (market, eligibility, cost, the reviewed plan's account,
\* instrument and price ceiling) may fail on its own.
Verdicts == IF bound /\ AccountEmpty THEN {"plan", "hold"} ELSE {"hold"}

-----------------------------------------------------------------------------
(* DemoPreview *)

\* No run has the key, so the provider is evaluated (no row is locked).
PreviewEvaluate(h, r) ==
    /\ pc[h] = "idle"
    /\ row[r].status = "none"
    /\ \E v \in Verdicts : Goto(h, "insert", r, v, NoRow)
    /\ UNCHANGED <<tables, broker, host>>

\* INSERT ... ON CONFLICT(idempotency_key) DO NOTHING: the loser of a race
\* returns the stored run.
PreviewInsert(h) ==
    LET r == job[h] IN
    /\ pc[h] = "insert"
    /\ IF row[r].status = "none"
       THEN /\ SetStatus(r, IF verdict[h] = "plan" THEN "ready" ELSE "hold")
            /\ AddEvent(r, "decision")
       ELSE UNCHANGED <<row, trail>>
    /\ Return(h)
    /\ UNCHANGED <<expired, stale, broker, host>>

-----------------------------------------------------------------------------
(* DemoExecute *)

ExecuteRead(h, r) ==
    /\ pc[h] = "idle"
    /\ row[r].status = "ready"
    /\ r \notin expired
    /\ Goto(h, "evaluate", r, "none", NoRow)
    /\ UNCHANGED <<tables, broker, host>>

ExecuteEvaluate(h) ==
    /\ pc[h] = "evaluate"
    /\ \E v \in Verdicts : Goto(h, "decide", job[h], v, NoRow)
    /\ UNCHANGED <<tables, broker, host>>

\* holdDemo: the row changes only if it is still ready; the event is added
\* whatever the row's status.
HoldRun(h) ==
    LET r == job[h] IN
    /\ pc[h] = "decide"
    /\ verdict[h] = "hold"
    /\ IF HoldWhere(r) THEN SetStatus(r, "hold") ELSE UNCHANGED row
    /\ AddEvent(r, "hold")
    /\ Return(h)
    /\ UNCHANGED <<expired, stale, broker, host>>

\* The unique partial index refuses a second row in an active status.
IndexAdmits(r) == \A s \in Runs \ {r} : row[s].status \notin Active

\* Not the code: the intent's UPDATE trusts the status read before evaluation.
MaySubmitAsRead(r) == r \notin expired /\ IndexAdmits(r)

MaySubmit(r) == row[r].status = "ready" /\ r \notin expired /\ IndexAdmits(r)

\* The intent transaction: ready -> submitting, with its event.
SubmitIntent(h) ==
    LET r == job[h] IN
    /\ pc[h] = "decide"
    /\ verdict[h] = "plan"
    /\ MaySubmit(r)
    /\ SetStatus(r, "submitting")
    /\ AddEvent(r, "submit_intent")
    /\ Goto(h, "post", r, "none", NoRow)
    /\ UNCHANGED <<expired, stale, broker, host>>

\* ErrDemoActiveIntent (23505) or ErrDemoIntentNotReady (no row updated).
SubmitRefused(h) ==
    /\ pc[h] = "decide"
    /\ verdict[h] = "plan"
    /\ ~MaySubmit(job[h])
    /\ Return(h)
    /\ UNCHANGED <<tables, broker, host>>

\* SubmitDemoMarket puts the order on the wire, under the run's ID.
Post(h) ==
    LET r == job[h] IN
    /\ pc[h] = "post"
    /\ wire' = [wire EXCEPT ![r] = "sent"]
    /\ posts' = [posts EXCEPT ![r] = @ + 1]
    /\ Goto(h, "await", r, "none", NoRow)
    /\ UNCHANGED <<tables, book, execs, closed, host>>

\* Not the code: no response is taken for a rejection.
TimeoutIsRejection(r) ==
    {"rejected"} \cup (IF wire[r] = "accepted" THEN {"accepted"} ELSE {})

\* A 2xx with a receipt, a 4xx other than 429, or anything else: a timeout, a
\* 5xx, a broken response.  The last may happen whatever the broker did.
Outcomes(r) ==
    {"unknown"}
    \cup (IF wire[r] = "accepted" THEN {"accepted"} ELSE {})
    \cup (IF wire[r] = "refused" THEN {"rejected"} ELSE {})

ReceiveOutcome(h) ==
    /\ pc[h] = "await"
    /\ \E v \in Outcomes(job[h]) : Goto(h, "record", job[h], v, NoRow)
    /\ UNCHANGED <<tables, broker, host>>

\* recordDemoSubmit: WHERE status='submitting', rows affected not checked; the
\* event is added either way.  An accepted order is reconciled at once.
RecordSubmit(h) ==
    LET r == job[h]
        v == verdict[h]
    IN
    /\ pc[h] = "record"
    /\ IF RecordWhere(r)
       THEN row' = [row EXCEPT ![r].status = v,
                      ![r].orderId = IF v = "accepted" THEN "own" ELSE "none"]
       ELSE UNCHANGED row
    /\ AddEvent(r, SubmissionEvent(v))
    /\ IF v = "accepted" THEN Goto(h, "reread", r, "none", NoRow) ELSE Return(h)
    /\ UNCHANGED <<expired, stale, broker, host>>

-----------------------------------------------------------------------------
(* DemoReconcile, ReconcilePendingDemo *)

\* Not the code: submitting intents are left to their submitter for ever.
ReconcilableAfterOutcome(r) ==
    row[r].status \in Active \ {"submitting"} /\ bound

\* Not the code: a run with an uncertain outcome is left to the operator.
ReconcilableUnlessUnknown(r) ==
    /\ row[r].status \in Active \ {"unknown"}
    /\ row[r].status = "submitting" => r \in stale
    /\ bound

\* The early returns of DemoReconcile.
Reconcilable(r) ==
    /\ row[r].status \in Active
    /\ row[r].status = "submitting" => r \in stale
    /\ bound

\* A handler reconciles the run it is asked to, the sweeper every run its query
\* found active; the index keeps that to one run at a time.
BeginReconcile(p, r) ==
    /\ pc[p] = "idle"
    /\ Reconcilable(r)
    /\ Goto(p, "lookup", r, "none", row[r])
    /\ UNCHANGED <<tables, broker, host>>

\* The reconciliation at the end of DemoExecute.
InlineReconcile(h) ==
    /\ pc[h] = "reread"
    /\ IF Reconcilable(job[h])
       THEN Goto(h, "lookup", job[h], "none", row[job[h]])
       ELSE Return(h)
    /\ UNCHANGED <<tables, broker, host>>

\* What a lookup of r can return: the order found by the run's reference, or,
\* when the broker does not know the reference, by an order ID the row carries.
Answers(r, known) ==
    IF book[r] = "none" \/ (~ReferenceIndexed /\ known = "none")
    THEN {}
    ELSE {[orderId |-> "own", class |-> book[r], positions |-> r \in execs]}
         \cup (IF ForeignAnswers
               THEN {[orderId |-> "other", class |-> "filled", positions |-> TRUE],
                     [orderId |-> "other", class |-> "rejected", positions |-> FALSE]}
               ELSE {})

\* The row DemoReconcile writes for answer a, given the row it read.
Resolved(old, a) ==
    [status |-> IF old.orderId \notin {"none", a.orderId}
                THEN "unknown"
                ELSE LookupState(a.class, a.positions),
     orderId |-> a.orderId, class |-> a.class, positions |-> a.positions]

SameOutcome(old, new) ==
    /\ old.status = new.status
    /\ old.orderId = new.orderId
    /\ old.class = new.class

\* An answer that changes nothing is not written.
LookupAnswered(p) ==
    LET r == job[p] IN
    /\ pc[p] = "lookup"
    /\ \E a \in Answers(r, copy[p].orderId) :
         IF SameOutcome(copy[p], Resolved(copy[p], a))
         THEN Return(p)
         ELSE Goto(p, "apply", r, "none", Resolved(copy[p], a))
    /\ UNCHANGED <<tables, broker, host>>

\* No usable answer: only an intent read as submitting is marked unknown.
LookupFailed(p) ==
    /\ pc[p] = "lookup"
    /\ IF copy[p].status = "submitting"
       THEN Goto(p, "mark", job[p], "none", NoRow)
       ELSE Return(p)
    /\ UNCHANGED <<tables, broker, host>>

\* UPDATE ... WHERE status IN (the active ones), rows affected not checked.
ApplyLookup(p) ==
    LET r == job[p] IN
    /\ pc[p] = "apply"
    /\ row' = [row EXCEPT ![r] = IF LookupWhere(r) THEN copy[p] ELSE @]
    /\ AddEvent(r, "broker_lookup")
    /\ Return(p)
    /\ UNCHANGED <<expired, stale, broker, host>>

\* markDemoUnknown: WHERE status='submitting', rows affected not checked.
MarkUnknown(p) ==
    LET r == job[p] IN
    /\ pc[p] = "mark"
    /\ IF MarkWhere(r) THEN SetStatus(r, "unknown") ELSE UNCHANGED row
    /\ AddEvent(r, "broker_lookup_unknown")
    /\ Return(p)
    /\ UNCHANGED <<expired, stale, broker, host>>

-----------------------------------------------------------------------------
(* Failures, restarts and time *)

\* A process gives up: a cancelled context, a database error, or a commit whose
\* result never arrived (then the transaction's own step came first).
Abandon(p) ==
    /\ pc[p] \notin {"idle", "await"}
    /\ Return(p)
    /\ UNCHANGED <<tables, broker, host>>

\* The process dies and restarts with no Demo client bound.
Crash ==
    /\ crashes < MaxCrashes
    /\ crashes' = crashes + 1
    /\ bound' = FALSE
    /\ pc' = [p \in Procs |-> "idle"]
    /\ job' = [p \in Procs |-> NoRun]
    /\ verdict' = [p \in Procs |-> "none"]
    /\ copy' = [p \in Procs |-> NoRow]
    /\ UNCHANGED <<tables, broker>>

\* A portfolio sync binds the Demo client.
Bind ==
    /\ ~bound
    /\ bound' = TRUE
    /\ UNCHANGED <<tables, procs, broker, crashes>>

Expire(r) ==
    /\ row[r].status = "ready"
    /\ r \notin expired
    /\ expired' = expired \cup {r}
    /\ UNCHANGED <<row, trail, stale, procs, broker, host>>

\* 30 s since updated_at, the start of the intent transaction.  Without
\* SlowCommit the POST (25 s at most) is over by then.
Age(r) ==
    /\ row[r].status = "submitting"
    /\ r \notin stale
    /\ SlowCommit \/ \A h \in Handlers :
                        ~(job[h] = r /\ pc[h] \in {"post", "await"})
    /\ stale' = stale \cup {r}
    /\ UNCHANGED <<row, trail, expired, procs, broker, host>>

-----------------------------------------------------------------------------
(* The broker and the network *)

\* The POST is accepted as an order, refused, or lost; the client may have
\* stopped waiting for it.
BrokerReceives(r) ==
    /\ wire[r] = "sent"
    /\ \E fate \in {"accepted", "refused", "lost"} :
         /\ wire' = [wire EXCEPT ![r] = fate]
         /\ book' = [book EXCEPT ![r] = IF fate = "accepted" THEN "inflight"
                                                             ELSE @]
    /\ UNCHANGED <<tables, procs, execs, closed, posts, host>>

\* The order moves on.  A fill may be reported before its position ID is, and
\* an order may be cut short after it was partly executed.
BrokerProgress(r) ==
    /\ \/ /\ book[r] \in {"inflight", "odd"}
          /\ \E c \in Reported \ {book[r]} :
               /\ book' = [book EXCEPT ![r] = c]
               /\ execs' = IF c = "partial" THEN execs \cup {r} ELSE execs
       \/ /\ book[r] = "partial"
          /\ \E c \in {"filled", "rejected"} : book' = [book EXCEPT ![r] = c]
          /\ UNCHANGED execs
       \/ /\ book[r] = "filled"
          /\ r \notin execs
          /\ execs' = execs \cup {r}
          /\ UNCHANGED book
    /\ UNCHANGED <<tables, procs, wire, closed, posts, host>>

\* The owner closes the position on the provider's own site.
ClosePosition(r) ==
    /\ r \in execs \ closed
    /\ book[r] \in {"filled", "rejected"}
    /\ closed' = closed \cup {r}
    /\ UNCHANGED <<tables, procs, wire, book, execs, posts, host>>

-----------------------------------------------------------------------------
Reconcile(p) ==
    \/ \E r \in Runs : BeginReconcile(p, r)
    \/ LookupAnswered(p)
    \/ LookupFailed(p)
    \/ ApplyLookup(p)
    \/ MarkUnknown(p)
    \/ Abandon(p)

Handle(h) ==
    \/ \E r \in Runs : PreviewEvaluate(h, r) \/ ExecuteRead(h, r)
    \/ PreviewInsert(h)
    \/ ExecuteEvaluate(h)
    \/ HoldRun(h)
    \/ SubmitIntent(h)
    \/ SubmitRefused(h)
    \/ Post(h)
    \/ ReceiveOutcome(h)
    \/ RecordSubmit(h)
    \/ InlineReconcile(h)

Environment ==
    \/ Crash
    \/ Bind
    \/ \E r \in Runs : \/ Expire(r) \/ Age(r)
                       \/ BrokerReceives(r) \/ BrokerProgress(r)
                       \/ ClosePosition(r)

Next ==
    \/ \E p \in Procs : Reconcile(p)
    \/ \E h \in Handlers : Handle(h)
    \/ Environment

Spec == Init /\ [][Next]_vars

\* The scheduling the code provides: the portfolio sync keeps retrying until it
\* binds a client, time passes, and the sweeper's ticker fires for ever.  Strong
\* fairness on the sweeper's lookup and write says that the provider and the
\* database do not fail on every single attempt.
Fairness ==
    /\ WF_vars(Bind)
    /\ \A r \in Runs : WF_vars(Age(r))
    /\ \A p \in Sweepers :
         /\ WF_vars(\E r \in Runs : BeginReconcile(p, r))
         /\ SF_vars(LookupAnswered(p) \/ LookupFailed(p))
         /\ SF_vars(LookupAnswered(p))
         /\ SF_vars(ApplyLookup(p) \/ MarkUnknown(p))

FairSpec == Spec /\ Fairness

-----------------------------------------------------------------------------
(* What must hold *)

\* No two runs are unresolved at once, however executions, lookups and restarts
\* interleave: the index plus the WHERE clauses of every later update.
OneActive ==
    \A r, s \in Runs :
        row[r].status \in Active /\ row[s].status \in Active => r = s

\* A run's order is posted at most once, by two executions of it or after a
\* crash alike, and never without the durable intent row and its event.  A run
\* that was held never was to be posted: an execution that holds it cannot
\* overtake another one that has already written its intent.
PostedOnceAfterIntent ==
    \A r \in Runs :
        /\ posts[r] <= 1
        /\ posts[r] = 1 => /\ row[r].status \notin {"none", "ready", "hold"}
                           /\ "submit_intent" \in trail[r]
        /\ row[r].status = "hold" => "submit_intent" \notin trail[r]

\* The broker may still act on r: its POST is on the wire, or its order is in a
\* state DemoReconcile does not take for an answer.
Unsettled(r) ==
    \/ wire[r] = "sent"
    \/ book[r] \in Class /\ LookupState(book[r], r \in execs) \in Active

\* While the broker may still act on a run's order, the run is frozen in an
\* active status, so no other run can be submitted.
UnsettledIsFrozen ==
    \A r \in Runs : Unsettled(r) => row[r].status \in Active

\* A final status tells the truth about the broker: filled means executed, and
\* rejected means that nothing of the order ever was or will be.
FinalStatusIsTrue ==
    \A r \in Runs :
        /\ row[r].status = "filled" => book[r] = "filled" /\ r \in execs
        /\ row[r].status = "rejected" =>
              \/ wire[r] = "refused"
              \/ book[r] = "rejected" /\ r \notin execs

\* Once a run is held, filled or rejected, its row never changes again, not
\* even by a lookup that was answered before the run became final.
FinalRowIsImmutable ==
    [][\A r \in Runs : row[r].status \in Terminal => row'[r] = row[r]]_vars

\* An intent does not stay "submitting": its outcome is recorded, or the
\* sweeper looks it up, also after the submitter crashed.
IntentLeavesSubmitting ==
    \A r \in Runs : row[r].status = "submitting" ~> row[r].status # "submitting"

\* A fill at the broker is eventually recorded, whatever response, lookup or
\* process was lost on the way (for a broker that knows request references).
FillIsRecorded ==
    \A r \in Runs : (book[r] = "filled" /\ r \in execs) ~> row[r].status = "filled"

\* The rows and the POSTs, seen from outside, are an execution of DemoIntent:
\* the four statuses under the index are one open intent.
PhaseOf(status) == IF status \in Active THEN "open" ELSE status

Intent == INSTANCE DemoIntent WITH
    phase <- [r \in Runs |-> PhaseOf(row[r].status)],
    sent  <- posts

KeepsIntentPromise == Intent!Spec

-----------------------------------------------------------------------------
(* What the repository says and the code does not do *)

\* demo_strategy.go:161: "Existing positions or pending orders block this
\* one-time probe."  At most one run's order or position is in the account.
OneExposure ==
    \A r, s \in Runs : Occupies(r) /\ Occupies(s) => r = s

\* demo_strategy.go:565: "Broker lookup order ID does not match the submitted
\* order; manual reconciliation required."  A run in that state stays unknown:
\* no automatic lookup resolves it.
Mismatched(r) ==
    row[r].status = "unknown" /\ row[r].orderId = "other"
    /\ "submission_accepted" \in trail[r]

MismatchNeedsAPerson ==
    [][\A r \in Runs : Mismatched(r) => row'[r].status = "unknown"]_vars
=============================================================================
