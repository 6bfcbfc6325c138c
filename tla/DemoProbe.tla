------------------------------ MODULE DemoProbe ------------------------------
(***************************************************************************)
(* What the one-time Demo order is decided on, and in whose account        *)
(* (evaluateDemo, DemoExecute and DemoReconcile of                         *)
(* internal/platform/demo_strategy.go over the client of internal/etoro).  *)
(*                                                                         *)
(* One run is previewed, executed and reconciled.  Each provider read is a *)
(* step of the evaluation, and between any two the process may restart     *)
(* with the key of another account.  DemoOrder has the races between       *)
(* processes and their transactions; here a transaction is part of the     *)
(* step that needs it, and what matters is which account, instrument and   *)
(* price each step speaks about.                                           *)
(***************************************************************************)
EXTENDS EtoroClient, Sums

CONSTANTS
    Accounts,         \* provider account IDs (cid)
    Bodies,           \* the data a whole answer to each of the six reads may hold
    Failures,         \* the answers that are not whole
    OrderID,          \* the ID the broker gives the run's order
    ReferenceIndexed, \* does the broker find an order by its request reference?
    LateRefusals,     \* may a 4xx other than 429 follow an accepted order?
    MaxRestarts       \* bound on restarts of the process

Read == <<"account", "book", "instrument", "quote", "eligibility", "costs">>
Reads == {Read[i] : i \in 1..6}

ASSUME ProbeAssumption ==
    /\ Accounts \subseteq Nat \ {0}
    /\ DOMAIN Bodies = Reads
    /\ \A b \in Bodies["account"] : b.cid \in Nat
    /\ \A b \in Bodies["instrument"] : Len(b) \in Nat /\ DOMAIN b = 1..Len(b)
    /\ \A b \in Bodies["quote"] : b.bid \in Int /\ b.ask \in Int
    /\ \A b \in Bodies["eligibility"] :
         Len(b.configs) \in Nat /\ DOMAIN b.configs = 1..Len(b.configs)
    /\ \A f \in Failures : f.status \in Nat /\ f.form \in Form \ {"whole"}
    /\ OrderID \in Nat \ {0}
    /\ ReferenceIndexed \in BOOLEAN
    /\ LateRefusals \in BOOLEAN
    /\ MaxRestarts \in Nat

NoAccount == 0
Reference == "run"

Whole(status, data) == [status |-> status, form |-> "whole", data |-> data]

Active == {"submitting", "accepted", "unknown", "partially_filled"}
Status == {"none", "ready", "hold", "filled", "rejected"} \cup Active

NoPlan == [account |-> NoAccount, instrument |-> 0, ask |-> 0]
NoOrder == [account |-> NoAccount, instrument |-> 0, ask |-> 0,
            statusId |-> 0, positions |-> 0]

VARIABLES
    key,      \* the account the configured Demo key reads
    armed,    \* demoExecutionEnabled
    bound,    \* the account of the bound client, in this process
    doing,    \* what the evaluation in progress is for, or the POST's step
    client,   \* the account of the client the evaluation took
    seen,     \* the data captured by the evaluation, read by read
    status, plan, orderKnown, \* the row: the reviewed plan, is broker_order_id set?
    order,    \* the broker's order
    posts,    \* history: how often the order was posted
    restarts  \* history: restarts so far

process == <<key, armed, bound, restarts>>
evaluation == <<doing, client, seen>>
row == <<status, plan, orderKnown>>
broker == <<order, posts>>
vars == <<process, evaluation, row, broker>>

TypeOK ==
    /\ key \in Accounts \cup {NoAccount}
    /\ armed \in BOOLEAN
    /\ bound \in {NoAccount, key}
    /\ doing \in {"nothing", "preview", "execute", "post", "record"}
    /\ client \in {NoAccount, bound}
    /\ Len(seen) \in 0..6
    /\ status \in Status
    /\ status \in Active => plan.account # NoAccount
    /\ orderKnown \in BOOLEAN
    /\ order.account \in Accounts \cup {NoAccount}
    /\ order.positions \in Nat
    /\ posts \in 0..1
    /\ restarts \in Nat

Init ==
    /\ key \in Accounts
    /\ armed \in BOOLEAN
    /\ bound = NoAccount
    /\ doing = "nothing"
    /\ client = NoAccount
    /\ seen = <<>>
    /\ status = "none"
    /\ plan = NoPlan
    /\ orderKnown = FALSE
    /\ order = NoOrder
    /\ posts = 0
    /\ restarts = 0

-----------------------------------------------------------------------------
(* The gates of evaluateDemo, on the data of each read; ages in seconds,   *)
(* prices and costs in cents                                               *)

RecentProviderTime(age, maxAge) == -10 <= age /\ age <= maxAge

AccountGate(d) ==
    /\ RecentProviderTime(d.age, 120)
    /\ d.currency = "USD" /\ d.cid > 0
    /\ d.cash >= 50000 /\ d.total >= 100 * 10000
    /\ d.holdings = 0 /\ d.mirrors = 0

BookGate(d) == \A name \in BookArrays : d[name] = 0

Instrument(d) == ExactItem(d, "BTC")
InstrumentGate(d) == Instrument(d).tradable /\ Instrument(d).buyable

QuoteGate(d) ==
    /\ d.quoteType = "realtime" /\ RecentProviderTime(d.age, 30)
    /\ (d.ask - d.bid) * 10000 <= 50 * d.bid

EligibilityGate(d) ==
    /\ d.canOpen /\ d.symbol = "BTC"
    /\ RealLongUnlevered(d)
    /\ d.minExposure <= 10000 /\ MinPositionAmount(d) <= 10000

Immediate == {"markup", "marketSpread", "transactionFee", "sdrt"}
Ongoing == {"overnightFee", "overWeekendFee"}

\* The sum of the immediate costs.
Upfront(items) ==
    Total([i \in DOMAIN items |->
              IF items[i].type \in Immediate THEN items[i].value ELSE 0])

\* Not the code: fees of every known type are added up and capped.
CostGateWithOngoing(d) ==
    /\ RecentProviderTime(d.age, 120)
    /\ \A i \in DOMAIN d.items : d.items[i].type \in Immediate \cup Ongoing
    /\ Upfront(d.items) <= 200

CostGate(d) ==
    /\ RecentProviderTime(d.age, 120)
    /\ \A i \in DOMAIN d.items :
         \/ d.items[i].type \in Immediate
         \/ d.items[i].type \in Ongoing /\ d.items[i].value = 0
    /\ Upfront(d.items) <= 200

\* The read that follows those in s was answered and passes its gates.
Passes(s, a) ==
    LET id == Instrument(s[3]).id IN
    \/ Len(s) = 0 /\ FetchAggregateError(a) = "none" /\ AccountGate(a.data)
    \/ Len(s) = 1 /\ FetchDemoBookError(a) = "none" /\ BookGate(a.data)
    \/ Len(s) = 2 /\ FindInstrumentError(a, "BTC") = "none" /\ InstrumentGate(a.data)
    \/ Len(s) = 3 /\ FetchRateError(a, id) = "none" /\ QuoteGate(a.data)
    \/ Len(s) = 4 /\ FetchDemoEligibilityError(a, id) = "none" /\ EligibilityGate(a.data)
    \/ Len(s) = 5 /\ FetchDemoCostsError(a, id) = "none" /\ CostGate(a.data)

-----------------------------------------------------------------------------
(* evaluateDemo, for DemoPreview and DemoExecute *)

\* The provider answers for the account the client reads, or fails.
Answers(i, account) ==
    Failures \cup
    {Whole(200, d) : d \in {b \in Bodies[Read[i]] :
                              Read[i] = "account" => b.cid \in {0, account}}}

Rest == doing' = "nothing" /\ client' = NoAccount /\ seen' = <<>>

\* An evaluation without a plan: a preview is stored as a hold, and so is a run
\* that is still ready.
Hold ==
    /\ status' = "hold"
    /\ Rest
    /\ UNCHANGED <<plan, orderKnown, broker, process>>

\* Not the code: the configured key is used although no portfolio was read with it.
BeginUnbound(purpose) ==
    /\ doing = "nothing"
    /\ status = IF purpose = "preview" THEN "none" ELSE "ready"
    /\ key # NoAccount /\ armed
    /\ doing' = purpose
    /\ client' = key
    /\ UNCHANGED <<seen, row, broker, process>>

\* DemoPreview of a key without a run, DemoExecute of a run that is ready (its
\* 60 s are in DemoOrder): the client and the switch are taken under the mutex.
Begin(purpose) ==
    /\ doing = "nothing"
    /\ status = IF purpose = "preview" THEN "none" ELSE "ready"
    /\ bound # NoAccount /\ armed
    /\ doing' = purpose
    /\ client' = bound
    /\ UNCHANGED <<seen, row, broker, process>>

\* No client is bound, or the switch is off.
BeginUnarmed ==
    /\ doing = "nothing"
    /\ status \in {"none", "ready"}
    /\ bound = NoAccount \/ ~armed
    /\ Hold

Evaluating == doing \in {"preview", "execute"}

ReadPasses ==
    /\ Evaluating
    /\ Len(seen) < 6
    /\ \E a \in Answers(Len(seen) + 1, client) :
         Passes(seen, a) /\ seen' = Append(seen, a.data)
    /\ UNCHANGED <<doing, client, row, broker, process>>

ReadHolds ==
    /\ Evaluating
    /\ Len(seen) < 6
    /\ \E a \in Answers(Len(seen) + 1, client) : ~Passes(seen, a)
    /\ Hold

\* The plan of a complete evaluation.
PlanOf(s) == [account |-> s[1].cid, instrument |-> Instrument(s[3]).id,
              ask |-> s[4].ask]

\* DemoPreview stores the plan as ready.
PreviewReady ==
    /\ doing = "preview"
    /\ Len(seen) = 6
    /\ plan' = PlanOf(seen)
    /\ status' = "ready"
    /\ Rest
    /\ UNCHANGED <<orderKnown, broker, process>>

-----------------------------------------------------------------------------
(* DemoExecute *)

\* The ask times 1.002, rounded up to the cent.
MaxRecheckAsk(ask) == (ask * 1002 + 999) \div 1000

\* Not the code: the recheck compares the market only.
StillReviewedMarket(old, new) ==
    new.instrument = old.instrument /\ new.ask <= MaxRecheckAsk(old.ask)

\* The recheck found the account, the instrument and the price of the review.
StillReviewed(old, new) ==
    /\ new.account = old.account
    /\ new.instrument = old.instrument
    /\ new.ask <= MaxRecheckAsk(old.ask)

RecheckHolds ==
    /\ doing = "execute"
    /\ Len(seen) = 6
    /\ ~StillReviewed(plan, PlanOf(seen))
    /\ Hold

SubmitIntent ==
    /\ doing = "execute"
    /\ Len(seen) = 6
    /\ StillReviewed(plan, PlanOf(seen))
    /\ status' = "submitting"
    /\ doing' = "post"
    /\ UNCHANGED <<client, seen, plan, orderKnown, broker, process>>

\* The POST with the client of the evaluation: the broker accepts it or not.
Post ==
    /\ doing = "post"
    /\ doing' = "record"
    /\ \/ order' = [account |-> client, instrument |-> plan.instrument,
                    ask |-> seen[4].ask, statusId |-> 1, positions |-> 0]
       \/ UNCHANGED order
    /\ posts' = posts + 1
    /\ UNCHANGED <<client, seen, row, process>>

\* A receipt that does not repeat the reference is a success with a broken body.
\* A 4xx other than 429 is the provider's refusal; LateRefusals lets it also come
\* from something between the broker and the client.
SubmitAnswers ==
    IF order # NoOrder
    THEN {Whole(201, [orderId |-> OrderID, referenceId |-> r]) : r \in {Reference, "else"}}
         \cup {f \in Failures : LateRefusals \/ f.status \notin (400..499) \ {429}}
    ELSE Failures

\* Not the code: every answer with an error status is a refusal.
AnyErrorRejects(a) ==
    IF SubmitDemoMarketError(a, Reference) = "none" THEN "accepted"
    ELSE IF a.status >= 400 THEN "rejected" ELSE "unknown"

\* The classification in DemoExecute: the status alone decides what a refusal
\* is, also when its body could not be read.
Outcome(a) ==
    IF SubmitDemoMarketError(a, Reference) = "none" THEN "accepted"
    ELSE IF a.status \in (400..499) \ {429} THEN "rejected" ELSE "unknown"

\* recordDemoSubmit, if the run was not looked up meanwhile.
Record ==
    /\ doing = "record"
    /\ \E a \in SubmitAnswers :
         IF status = "submitting"
         THEN /\ status' = Outcome(a)
              /\ orderKnown' = (Outcome(a) = "accepted")
         ELSE UNCHANGED <<status, orderKnown>>
    /\ Rest
    /\ UNCHANGED <<plan, broker, process>>

-----------------------------------------------------------------------------
(* DemoReconcile *)

NotFound == [status |-> 404, form |-> "broken"]

OrderData == [orderId |-> OrderID, statusId |-> order.statusId,
              positions |-> order.positions]

\* The lookup of an order, with the bound key: another account's key finds none.
LookupAnswers(indexed) ==
    Failures \cup
    (IF order # NoOrder /\ order.account = bound /\ indexed
     THEN {Whole(200, OrderData)} ELSE {NotFound})

\* Not the code: the reference is the only way to find an order.
FallsBackNever(a, known) == FALSE

\* Only an APIError of 404 sends the lookup on to the order's ID, if known.
FallsBack(a, known) ==
    LookupDemoOrderError(a) = "api" /\ a.status = 404 /\ known

\* Every answer lookupDemoOrderWithFallback may end with.
Lookups ==
    {a \in LookupAnswers(ReferenceIndexed) : ~FallsBack(a, orderKnown)}
    \cup (IF \E a \in LookupAnswers(ReferenceIndexed) : FallsBack(a, orderKnown)
          THEN LookupAnswers(TRUE) ELSE {})

DemoLookupState(d) ==
    CASE d.statusId = 3 -> IF d.positions = 0 THEN "unknown" ELSE "filled"
      [] d.statusId \in {5, 10} -> "partially_filled"
      [] d.statusId = 4 -> IF d.positions > 0 THEN "unknown" ELSE "rejected"
      [] d.statusId \in {1, 2, 11, 12} -> "accepted"
      [] OTHER -> "unknown"

\* Not the code: an order the broker does not know was rejected.
ReconciledOr404(a) ==
    IF LookupDemoOrderError(a) = "none" THEN DemoLookupState(a.data)
    ELSE IF a.status = 404 THEN "rejected"
    ELSE IF status = "submitting" THEN "unknown"
    ELSE status

\* The status a lookup leaves: a lookup that fails only ends "submitting".
Reconciled(a) ==
    IF LookupDemoOrderError(a) = "none" THEN DemoLookupState(a.data)
    ELSE IF status = "submitting" THEN "unknown"
    ELSE status

\* A run that is submitting is looked up 30 s after its intent began, which a
\* slow commit can leave before the POST is over.
ReconcileWith(lookups) ==
    /\ status \in Active
    /\ bound # NoAccount
    /\ \E a \in lookups :
         /\ status' = Reconciled(a)
         /\ orderKnown' = (orderKnown \/ LookupDemoOrderError(a) = "none")
    /\ UNCHANGED <<plan, broker, process, evaluation>>

DemoReconcile == ReconcileWith(Lookups)

-----------------------------------------------------------------------------
(* The broker, the portfolio sync and the host *)

\* The order moves on: it is filled with its position, in parts or at once, or
\* rejected; a fill may be reported before its position.
BrokerProgress ==
    /\ \E s \in {3, 4, 5, 7}, n \in 0..1 :
         /\ order.statusId \in {1, 5, 7} \/ (order.statusId = 3 /\ s = 3)
         /\ s = 5 => n = 1
         /\ s = 4 => n = order.positions
         /\ n >= order.positions
         /\ order' = [order EXCEPT !.statusId = s, !.positions = n]
         /\ order' # order
    /\ UNCHANGED <<posts, row, process, evaluation>>

\* A portfolio sync binds the configured key.
Bind ==
    /\ bound = NoAccount
    /\ key # NoAccount
    /\ bound' = key
    /\ UNCHANGED <<key, armed, restarts, row, broker, evaluation>>

\* The process dies and starts again with whatever the private settings say now.
Restart ==
    /\ restarts < MaxRestarts
    /\ restarts' = restarts + 1
    /\ key' \in Accounts \cup {NoAccount}
    /\ armed' \in BOOLEAN
    /\ bound' = NoAccount
    /\ Rest
    /\ UNCHANGED <<row, broker>>

-----------------------------------------------------------------------------
Next ==
    \/ Begin("preview") \/ Begin("execute") \/ BeginUnarmed
    \/ ReadPasses \/ ReadHolds
    \/ PreviewReady
    \/ RecheckHolds \/ SubmitIntent \/ Post \/ Record
    \/ DemoReconcile
    \/ BrokerProgress \/ Bind \/ Restart

Spec == Init /\ [][Next]_vars

\* Syncs retry until the key is bound and the background round looks unresolved
\* runs up for ever; the provider does not fail on every single lookup, and a
\* POST ends within 25 s.
LookupSucceeds ==
    ReconcileWith({a \in Lookups : LookupDemoOrderError(a) = "none"})

Fairness ==
    /\ WF_vars(Bind)
    /\ WF_vars(Post)
    /\ WF_vars(Record)
    /\ SF_vars(LookupSucceeds)

FairSpec == Spec /\ Fairness

-----------------------------------------------------------------------------
(* What must hold *)

\* The order is posted in the account and for the instrument that were reviewed,
\* on an ask at most 0.2 % and a cent above the reviewed one, whichever key and
\* market the process finds between the preview and the execution.
PostedAsReviewed ==
    order # NoOrder =>
        /\ order.account = plan.account
        /\ order.instrument = plan.instrument
        /\ 1000 * order.ask < 1002 * plan.ask + 1000

\* The run keeps the promise of DemoIntent, as DemoOrder does for several runs: one
\* intent per plan, sent at most once, and closed only when it was sent.
PhaseOf(s) == IF s \in Active THEN "open" ELSE s

Intent == INSTANCE DemoIntent WITH
    Runs  <- {Reference},
    phase <- [r \in {Reference} |-> PhaseOf(status)],
    sent  <- [r \in {Reference} |-> posts]

KeepsIntentPromise == Intent!Spec

\* docs/demo-btc-probe.md:7, of the account and the book: recent, in US dollars, of a
\* known account, funded and empty.
DocumentedAccount(a, b) ==
    /\ a.age <= 120 /\ a.currency = "USD" /\ a.cid > 0
    /\ a.cash >= 50000 /\ 100 * 10000 <= a.total
    /\ a.holdings + a.mirrors = 0
    /\ \A name \in BookArrays : name \in DOMAIN b /\ b[name] = 0

\* docs/demo-btc-probe.md:8, of the search and the quote of what it found.
DocumentedMarket(d, q) ==
    /\ \E i \in DOMAIN d : /\ d[i].symbol = "BTC" /\ d[i].id = q.id
                           /\ d[i].tradable /\ d[i].buyable
    /\ q.quoteType = "realtime" /\ q.age <= 30
    /\ q.bid < q.ask /\ 200 * (q.ask - q.bid) <= q.bid

\* docs/demo-btc-probe.md:9, of the eligibility and the costs of that instrument: $100
\* of real, unlevered BTC may be bought, at known costs of at most $2 at once.
DocumentedTerms(e, c, id) ==
    /\ e.id = id /\ e.canOpen /\ e.symbol = "BTC"
    /\ e.currency = "USD" /\ e.minExposure <= 10000
    /\ \E i \in DOMAIN e.configs : e.configs[i].fits /\ e.configs[i].minimum <= 10000
    /\ c.id = id /\ c.age <= 120
    /\ \A i \in DOMAIN c.items : /\ c.items[i].type \in Immediate \cup Ongoing
                                 /\ c.items[i].currency = "USD"
                                 /\ c.items[i].type \in Ongoing => c.items[i].value = 0
    /\ Upfront(c.items) <= 200

Documented(s) ==
    /\ DocumentedAccount(s[1], s[2])
    /\ DocumentedMarket(s[3], s[4])
    /\ DocumentedTerms(s[5], s[6], s[4].id)

\* Whatever the provider answers and whenever the process restarts, what was read for
\* the submission itself meets the document: anything else is a HOLD.
SubmitsAsDocumented ==
    [][status = "ready" /\ status' = "submitting" => Documented(seen)]_vars

\* Without the key of the account the order was posted in, no lookup decides
\* anything: the run is at most marked unknown.
ForeignKeyDecidesNothing ==
    [][order # NoOrder /\ bound # order.account =>
         status' = status \/ (status = "submitting" /\ status' = "unknown")]_vars

\* A final status is what became of the order in that account: rejected means
\* that there is none, or that the broker rejected it whole.
FinalStatusIsTrue ==
    /\ status = "filled" => order.statusId = 3 /\ order.positions > 0
    /\ status = "rejected" =>
         order = NoOrder \/ (order.statusId = 4 /\ order.positions = 0)

\* An order that is done is recorded at last when the process has the key of its
\* account and the broker can find it: by its reference, or by the ID the row has.
Done ==
    \/ order.statusId = 3 /\ order.positions > 0
    \/ order.statusId = 4 /\ order.positions = 0

Findable == (ReferenceIndexed \/ orderKnown) /\ key = order.account

DoneIsRecorded ==
    Done /\ Findable ~> (status \in {"filled", "rejected"} \/ key # order.account)
=============================================================================
