--------------------------- MODULE DemoProbeProofs ---------------------------
(* Proofs about DemoProbe, for any accounts, any data the provider may        *)
(* answer with, and any number of restarts.                                   *)
EXTENDS DemoProbe, SumProofs

Data == UNION {Bodies[r] : r \in Reads}

\* The part of the row, the order and the evaluation that TypeOK types, with the
\* account the captured data speak about.
Typed ==
    /\ key \in Accounts \cup {NoAccount}
    /\ armed \in BOOLEAN
    /\ bound \in {NoAccount, key}
    /\ doing \in {"nothing", "preview", "execute", "post", "record"}
    /\ client \in {NoAccount, bound}
    /\ status \in Status
    /\ orderKnown \in BOOLEAN
    /\ restarts \in Nat
    /\ plan.ask \in Int
    /\ order \in [account : Accounts \cup {NoAccount}, instrument : {0, plan.instrument},
                  ask : Int, statusId : Nat, positions : 0..1]

\* What an evaluation captured is about the account of its client.
SeenInv ==
    /\ seen \in Seq(Data)
    /\ Len(seen) \in 0..6
    /\ Len(seen) >= 1 => seen[1].cid = client /\ client # NoAccount
    /\ Len(seen) >= 4 => seen[4].ask \in Int
    /\ doing = "nothing" => Len(seen) = 0
    /\ doing # "nothing" => client \in Accounts /\ client = bound

\* How far the run can be at each step of the process.
StageInv ==
    /\ doing = "preview" => status = "none"
    /\ doing = "execute" => status = "ready"
    /\ status \notin {"none", "hold"} => plan.account # NoAccount
    /\ status \in {"none", "ready"} => order = NoOrder /\ doing \notin {"post", "record"}
    /\ doing = "post" => order = NoOrder /\ status \in {"submitting", "unknown"}
    /\ doing \in {"post", "record"} =>
         /\ Len(seen) = 6
         /\ plan.account = client
         /\ 1000 * seen[4].ask < 1002 * plan.ask + 1000
    /\ doing = "record" /\ order # NoOrder => order.account = client

\* An order that exists is the reviewed one.
OrderInv == PostedAsReviewed

\* A run is posted once, from the step after its intent, and the broker's order
\* comes from that POST.
PostsInv ==
    /\ posts \in 0..1
    /\ status \in {"none", "ready"} \/ doing = "post" => posts = 0
    /\ doing = "record" \/ order # NoOrder => posts = 1

Inv == Typed /\ SeenInv /\ StageInv /\ OrderInv /\ PostsInv

-----------------------------------------------------------------------------
(* The answers *)

LEMMA NobodysAccount == NoAccount \notin Accounts
BY ProbeAssumption DEF ProbeAssumption, NoAccount

\* A read or lookup that returns a value had a whole body.
LEMMA WholeAnswers ==
    ASSUME NEW a, NEW i
    PROVE  /\ FetchAggregateError(a) = "none" => a.form = "whole"
           /\ FetchRateError(a, i) = "none" => a.form = "whole"
           /\ FetchDemoBookError(a) = "none" => a.form = "whole"
           /\ FindInstrumentError(a, "BTC") = "none" => a.form = "whole"
           /\ FetchDemoEligibilityError(a, i) = "none" => a.form = "whole"
           /\ FetchDemoCostsError(a, i) = "none" => a.form = "whole"
           /\ LookupDemoOrderError(a) = "none" => a.form = "whole"
           /\ SubmitDemoMarketError(a, Reference) = "none" => a.form = "whole"
BY DEF FetchAggregateError, FetchRateError, FetchDemoBookError, FindInstrumentError,
       FetchDemoEligibilityError, FetchDemoCostsError, LookupDemoOrderError,
       SubmitDemoMarketError, TypedError

\* The ceiling of the recheck is 0.2 % and less than a cent above the ask.
LEMMA CeilingIsClose ==
    ASSUME NEW old \in Int, NEW new \in Int, new <= MaxRecheckAsk(old)
    PROVE  1000 * new < 1002 * old + 1000
BY SMT DEF MaxRecheckAsk

LEMMA ReadsInOrder ==
    ASSUME NEW n \in 0..5
    PROVE  /\ Read[n + 1] \in Reads
           /\ n = 0 => Read[n + 1] = "account"
           /\ n = 3 => Read[n + 1] = "quote"
<1>1. n + 1 \in 1..6
  OBVIOUS
<1>2. Read[1] = "account" /\ Read[4] = "quote"
  BY DEF Read
<1>3. QED
  BY <1>1, <1>2 DEF Reads

\* A read that passes its gates captures data the provider may give; the account
\* read has the ID of the client's account, and the quote an ask.
LEMMA Captured ==
    ASSUME NEW s \in Seq(Data), Len(s) \in 0..5,
           NEW c \in Accounts, NEW a \in Answers(Len(s) + 1, c), Passes(s, a)
    PROVE  /\ a.data \in Data
           /\ Len(s) = 0 => a.data.cid = c
           /\ Len(s) = 3 => a.data.ask \in Int
<1>1. a.form = "whole"
  BY WholeAnswers DEF Passes
<1>2. /\ Read[Len(s) + 1] \in Reads
      /\ Len(s) = 0 => Read[Len(s) + 1] = "account"
      /\ Len(s) = 3 => Read[Len(s) + 1] = "quote"
  BY ReadsInOrder
<1>3. PICK d \in Bodies[Read[Len(s) + 1]] :
        /\ a = Whole(200, d)
        /\ Read[Len(s) + 1] = "account" => d.cid \in {0, c}
  BY <1>1, ProbeAssumption DEF Answers, ProbeAssumption
<1>4. a.data = d
  BY <1>3 DEF Whole
<1>5. Len(s) = 0 => a.data.cid > 0
  BY DEF Passes, AccountGate
<1>6. QED
  BY <1>2, <1>3, <1>4, <1>5, ProbeAssumption DEF Data, ProbeAssumption

-----------------------------------------------------------------------------
(* The inductive invariant *)

LEMMA InitInv == ASSUME Init PROVE Inv
<1>1. Typed
  <2>1. order \in [account : Accounts \cup {NoAccount}, instrument : {0, plan.instrument},
                   ask : Int, statusId : Nat, positions : 0..1]
    BY DEF Init, NoOrder
  <2>2. armed \in BOOLEAN /\ orderKnown \in BOOLEAN
    BY Zenon DEF Init
  <2>3. plan.ask \in Int /\ status \in Status /\ restarts \in Nat
    BY DEF Init, NoPlan, Status
  <2>4. QED
    BY <2>1, <2>2, <2>3 DEF Init, Typed
<1>2. SeenInv
  BY DEF Init, SeenInv
<1>3. StageInv /\ OrderInv /\ PostsInv
  BY DEF Init, StageInv, OrderInv, PostedAsReviewed, PostsInv
<1>4. QED
  BY <1>1, <1>2, <1>3 DEF Inv

\* An evaluation that ends without a plan leaves the run held.
LEMMA HoldInv ==
    ASSUME Inv, status \in {"none", "ready"}, Hold
    PROVE  Inv'
BY DEF Hold, Rest, process, Inv, Typed, SeenInv, StageInv, OrderInv,
       PostedAsReviewed, PostsInv, broker, Status, NoOrder, NoAccount

LEMMA ReadInv == ASSUME Inv, ReadPasses PROVE Inv'
<1>1. PICK a \in Answers(Len(seen) + 1, client) :
        Passes(seen, a) /\ seen' = Append(seen, a.data)
  BY DEF ReadPasses
<1>2. /\ a.data \in Data
      /\ Len(seen) = 0 => a.data.cid = client
      /\ Len(seen) = 3 => a.data.ask \in Int
  <2>1. seen \in Seq(Data) /\ Len(seen) \in 0..5 /\ client \in Accounts
    BY DEF ReadPasses, Evaluating, Inv, SeenInv
  <2>2. QED
    BY <1>1, <2>1, Captured
<1>3. /\ seen' \in Seq(Data)
      /\ Len(seen') = Len(seen) + 1
      /\ \A i \in 1..Len(seen) : seen'[i] = seen[i]
      /\ seen'[Len(seen) + 1] = a.data
  BY <1>1, <1>2 DEF Inv, SeenInv
<1>4. SeenInv'
  BY <1>2, <1>3, NobodysAccount
     DEF ReadPasses, Evaluating, Inv, SeenInv, broker, process
<1>5. QED
  BY <1>4 DEF ReadPasses, Evaluating, Inv, Typed, StageInv, OrderInv,
              PostedAsReviewed, PostsInv, broker, process, row

LEMMA PreviewInv == ASSUME Inv, PreviewReady PROVE Inv'
BY DEF PreviewReady, PlanOf, Rest, process, Inv, Typed, SeenInv, StageInv,
       OrderInv, PostedAsReviewed, PostsInv, broker, Status, NoOrder, NoAccount

LEMMA IntentInv == ASSUME Inv, SubmitIntent PROVE Inv'
<1>1. plan.account = client
  BY DEF SubmitIntent, StillReviewed, PlanOf, Inv, SeenInv
<1>2. 1000 * seen[4].ask < 1002 * plan.ask + 1000
  BY CeilingIsClose DEF SubmitIntent, StillReviewed, PlanOf, Inv, Typed, SeenInv
<1>3. QED
  BY <1>1, <1>2 DEF SubmitIntent, process, Inv, Typed, SeenInv, StageInv, OrderInv,
                    PostedAsReviewed, PostsInv, broker, Status, Active

LEMMA PostInv == ASSUME Inv, Post PROVE Inv'
<1>1. /\ client \in Accounts /\ client # NoAccount /\ seen[4].ask \in Int
      /\ plan.account = client
      /\ 1000 * seen[4].ask < 1002 * plan.ask + 1000
      /\ status \in {"submitting", "unknown"}
  <2>1. doing = "post" /\ Len(seen) = 6
    BY DEF Post, Inv, StageInv
  <2>2. client \in Accounts /\ client # NoAccount /\ seen[4].ask \in Int
    BY <2>1 DEF Inv, SeenInv
  <2>3. QED
    BY <2>1, <2>2 DEF Inv, StageInv
<1>2. Typed'
  BY <1>1 DEF Post, row, process, Inv, Typed
<1>3. SeenInv'
  BY DEF Post, process, Inv, SeenInv
<1>4. StageInv'
  BY <1>1 DEF Post, row, process, Inv, StageInv, NoOrder
<1>5. OrderInv'
  BY <1>1 DEF Post, row, process, Inv, OrderInv, PostedAsReviewed, NoOrder
<1>6. PostsInv'
  BY <1>1 DEF Post, row, Inv, PostsInv
<1>7. QED
  BY <1>2, <1>3, <1>4, <1>5, <1>6 DEF Inv

LEMMA RecordInv == ASSUME Inv, Record PROVE Inv'
<1>1. status' \in Status \ {"none", "ready"}
  <2>1. PICK a \in SubmitAnswers :
          IF status = "submitting"
          THEN /\ status' = Outcome(a)
               /\ orderKnown' = (Outcome(a) = "accepted")
          ELSE UNCHANGED <<status, orderKnown>>
    BY DEF Record
  <2>2. Outcome(a) \in {"accepted", "rejected", "unknown"}
    BY DEF Outcome
  <2>3. QED
    BY <2>1, <2>2 DEF Record, Inv, Typed, StageInv, Status, Active
<1>2. orderKnown' \in BOOLEAN
  BY Zenon DEF Record, Inv, Typed
<1>3. plan.account # NoAccount /\ plan.account = client
  BY ProbeAssumption DEF Record, Inv, SeenInv, StageInv, NoAccount, ProbeAssumption
<1>4. QED
  BY <1>1, <1>2, <1>3 DEF Record, Rest, process, Inv, Typed, SeenInv, StageInv, OrderInv,
                    PostedAsReviewed, PostsInv, broker

\* A lookup leaves a run that was submitted in a status it can have after that.
LEMMA ReconcileInv == ASSUME Inv, DemoReconcile PROVE Inv'
<1>1. PICK a \in Lookups :
        /\ status' = Reconciled(a)
        /\ orderKnown' = (orderKnown \/ LookupDemoOrderError(a) = "none")
  BY DEF DemoReconcile, ReconcileWith
<1>2. status' \in Status \ {"none", "ready", "hold"}
  BY <1>1 DEF Reconciled, DemoLookupState, DemoReconcile, ReconcileWith, Status, Active
<1>3. orderKnown' \in BOOLEAN
  BY <1>1, Zenon DEF Inv, Typed
<1>4. doing = "post" => status' \in {"submitting", "unknown"}
  <2>1. SUFFICES ASSUME doing = "post" PROVE status' \in {"submitting", "unknown"}
    OBVIOUS
  <2>2. order = NoOrder /\ status \in {"submitting", "unknown"}
    BY <2>1 DEF Inv, StageInv
  <2>3. a.form # "whole"
    BY <2>2, ProbeAssumption DEF Lookups, LookupAnswers, NotFound, ProbeAssumption
  <2>4. QED
    BY <1>1, <2>2, <2>3, WholeAnswers DEF Reconciled
<1>5. QED
  BY <1>2, <1>3, <1>4
     DEF DemoReconcile, ReconcileWith, process, evaluation, Inv, Typed, SeenInv,
         StageInv, OrderInv, PostedAsReviewed, PostsInv, broker, Active

\* Only an order that exists moves on, and it stays where and what it is.
LEMMA BrokerInv == ASSUME Inv, BrokerProgress PROVE Inv'
<1>1. PICK s \in {3, 4, 5, 7}, n \in 0..1 :
        /\ order.statusId \in {1, 5, 7} \/ (order.statusId = 3 /\ s = 3)
        /\ order' = [order EXCEPT !.statusId = s, !.positions = n]
  BY DEF BrokerProgress
<1>2. order # NoOrder
  BY <1>1 DEF NoOrder
<1>3. UNCHANGED <<posts, row, process, evaluation>>
  BY DEF BrokerProgress
<1>4. /\ order'.account = order.account
      /\ order'.instrument = order.instrument
      /\ order'.ask = order.ask
      /\ order' \in [account : Accounts \cup {NoAccount}, instrument : {0, plan.instrument},
                     ask : Int, statusId : Nat, positions : 0..1]
  <2>1. order \in [account : Accounts \cup {NoAccount}, instrument : {0, plan.instrument},
                   ask : Int, statusId : Nat, positions : 0..1]
    BY DEF Inv, Typed
  <2>2. s \in Nat
    OBVIOUS
  <2>3. QED
    BY <1>1, <2>1, <2>2
<1>5. QED
  BY <1>2, <1>3, <1>4 DEF row, process, evaluation, Inv, Typed, SeenInv, StageInv,
                          OrderInv, PostedAsReviewed, PostsInv

LEMMA StepInv == ASSUME Inv, [Next]_vars PROVE Inv'
<1>1. ASSUME NEW purpose \in {"preview", "execute"}, Begin(purpose) PROVE Inv'
  BY <1>1 DEF Begin, row, process, Inv, Typed, SeenInv, StageInv, OrderInv,
              PostedAsReviewed, PostsInv, broker, NoAccount
<1>2. CASE BeginUnarmed
  BY <1>2, HoldInv DEF BeginUnarmed
<1>3. CASE ReadPasses
  BY <1>3, ReadInv
<1>4. CASE ReadHolds
  BY <1>4, HoldInv DEF ReadHolds, Evaluating, Inv, StageInv
<1>5. CASE PreviewReady
  BY <1>5, PreviewInv
<1>6. CASE RecheckHolds
  BY <1>6, HoldInv DEF RecheckHolds, Inv, StageInv
<1>7. CASE SubmitIntent
  BY <1>7, IntentInv
<1>8. CASE Post
  BY <1>8, PostInv
<1>9. CASE Record
  BY <1>9, RecordInv
<1>10. CASE DemoReconcile
  BY <1>10, ReconcileInv
<1>11. CASE BrokerProgress
  BY <1>11, BrokerInv
<1>12. CASE Bind
  <2>1. doing = "nothing" /\ client = NoAccount
    BY <1>12, ProbeAssumption
       DEF Bind, Inv, Typed, SeenInv, NoAccount, ProbeAssumption
  <2>2. QED
    BY <1>12, <2>1 DEF Bind, row, evaluation, Inv, Typed, SeenInv, StageInv,
                       OrderInv, PostedAsReviewed, PostsInv, broker
<1>13. CASE Restart
  BY <1>13 DEF Restart, Rest, row, Inv, Typed, SeenInv, StageInv, OrderInv,
               PostedAsReviewed, PostsInv, broker
<1>14. CASE UNCHANGED vars
  BY <1>14 DEF vars, row, process, evaluation, Inv, Typed, SeenInv, StageInv,
               OrderInv, PostedAsReviewed, PostsInv, broker
<1>15. QED
  BY <1>1, <1>2, <1>3, <1>4, <1>5, <1>6, <1>7, <1>8, <1>9, <1>10, <1>11, <1>12,
     <1>13, <1>14 DEF Next

LEMMA InvIsInvariant == Spec => []Inv
<1>1. Init => Inv
  BY InitInv
<1>2. Inv /\ [Next]_vars => Inv'
  BY StepInv
<1>3. QED
  BY <1>1, <1>2, PTL DEF Spec

-----------------------------------------------------------------------------
(* The theorems *)

\* Every reachable state is typed, and a run that was submitted has a plan.
THEOREM TypeCorrect == Spec => []TypeOK
<1>1. Inv => TypeOK
  BY DEF Inv, Typed, SeenInv, StageInv, PostsInv, TypeOK, Active
<1>2. QED
  BY <1>1, InvIsInvariant, PTL

\* The order is posted in the account that was reviewed, for the instrument that
\* was reviewed and within the ceiling of the reviewed price, whatever keys the
\* process is restarted with.
THEOREM Reviewed == Spec => []PostedAsReviewed
<1>1. Inv => PostedAsReviewed
  BY DEF Inv, OrderInv
<1>2. QED
  BY <1>1, InvIsInvariant, PTL

\* With another account's key, or none, a lookup decides nothing.
THEOREM ForeignKey == Spec => ForeignKeyDecidesNothing
<1> DEFINE Decided == order # NoOrder /\ bound # order.account =>
                        status' = status \/ (status = "submitting" /\ status' = "unknown")
<1>1. ASSUME Inv, [Next]_vars PROVE [Decided]_vars
  <2>1. SUFFICES ASSUME order # NoOrder, bound # order.account
                 PROVE  status' = status \/ (status = "submitting" /\ status' = "unknown")
    OBVIOUS
  <2>2. status \notin {"none", "ready"}
    BY <1>1, <2>1 DEF Inv, StageInv
  <2>3. doing \notin {"preview", "execute", "post", "record"}
    BY <1>1, <2>1 DEF Inv, SeenInv, StageInv
  <2>4. CASE DemoReconcile
    <3>1. PICK a \in Lookups : status' = Reconciled(a)
      BY <2>4 DEF DemoReconcile, ReconcileWith
    <3>2. Lookups \subseteq Failures \cup {NotFound}
                    \/ \E indexed \in BOOLEAN : order.account = bound /\ indexed
      BY DEF Lookups, LookupAnswers
    <3>3. a.form # "whole"
      BY <2>1, <3>1, <3>2, ProbeAssumption DEF NotFound, ProbeAssumption
    <3>4. LookupDemoOrderError(a) # "none"
      BY <3>3, WholeAnswers
    <3>5. QED
      BY <3>1, <3>4 DEF Reconciled
  <2>5. CASE UNCHANGED vars
    BY <2>5 DEF vars, row
  <2>6. CASE BrokerProgress \/ Bind \/ Restart
    BY <2>6 DEF BrokerProgress, Bind, Restart, row
  <2>7. QED
    BY <1>1, <2>2, <2>3, <2>4, <2>5, <2>6
       DEF Next, Begin, BeginUnarmed, ReadPasses, ReadHolds, PreviewReady,
           RecheckHolds, SubmitIntent, Post, Record, Evaluating
<1>2. QED
  BY <1>1, InvIsInvariant, PTL DEF Spec, ForeignKeyDecidesNothing

-----------------------------------------------------------------------------
(* What an execution that submits has read *)

\* An item that FindInstrument may take.
LEMMA ItemFound ==
    ASSUME NEW d, Len(d) \in Nat, DOMAIN d = 1..Len(d), ExactItems(d, "BTC") # {}
    PROVE  \E i \in DOMAIN d : d[i].symbol = "BTC" /\ d[i] = Instrument(d)
<1> DEFINE found == ExactItems(d, "BTC")
<1>1. found \in SUBSET Nat /\ found \subseteq DOMAIN d
  BY DEF ExactItems
<1>2. Min(found) \in found
  BY <1>1, LeastNatural DEF Min
<1>. QED
  BY <1>1, <1>2 DEF Instrument, ExactItem, ExactItems

\* The configuration the minimum is taken from is one of those that fit.
LEMMA ConfigFound ==
    ASSUME NEW d, Len(d.configs) \in Nat, DOMAIN d.configs = 1..Len(d.configs),
           RealLongUnlevered(d)
    PROVE  \E i \in DOMAIN d.configs :
             d.configs[i].fits /\ d.configs[i].minimum = MinPositionAmount(d)
<1> DEFINE fitting == FittingConfigs(d)
<1>1. fitting \in SUBSET (1..Len(d.configs)) /\ fitting # {}
  BY DEF FittingConfigs, RealLongUnlevered
<1>2. Max(fitting) \in fitting
  BY <1>1, GreatestIndex DEF Max
<1>. QED
  BY <1>2 DEF MinPositionAmount, FittingConfigs

\* The gates the captured reads have passed, read by read.
BookRead(d) == BookGate(d) /\ BookArrays \subseteq DOMAIN d

InstrumentRead(d) ==
    /\ InstrumentGate(d)
    /\ \E i \in DOMAIN d : d[i].symbol = "BTC" /\ d[i] = Instrument(d)

QuoteRead(d, id) ==
    /\ QuoteGate(d)
    /\ d.id = id /\ d.ask > d.bid
    /\ d.bid \in Int /\ d.ask \in Int

EligibilityRead(d, id) ==
    /\ EligibilityGate(d)
    /\ d.id = id /\ d.currency = "USD"
    /\ \E i \in DOMAIN d.configs :
         d.configs[i].fits /\ d.configs[i].minimum = MinPositionAmount(d)

CostRead(d, id) ==
    /\ CostGate(d)
    /\ d.id = id
    /\ \A i \in DOMAIN d.items : d.items[i].currency = "USD"

GateInv(s) ==
    /\ Len(s) >= 1 => AccountGate(s[1])
    /\ Len(s) >= 2 => BookRead(s[2])
    /\ Len(s) >= 3 => InstrumentRead(s[3])
    /\ Len(s) >= 4 => QuoteRead(s[4], Instrument(s[3]).id)
    /\ Len(s) >= 5 => EligibilityRead(s[5], Instrument(s[3]).id)
    /\ Len(s) >= 6 => CostRead(s[6], Instrument(s[3]).id)

\* The next read that passes is added to them.
LEMMA GatesGrow ==
    ASSUME NEW s \in Seq(Data), Len(s) \in 0..5, GateInv(s),
           NEW c \in Accounts, NEW a \in Answers(Len(s) + 1, c), Passes(s, a),
           a.data \in Data
    PROVE  GateInv(Append(s, a.data))
<1> DEFINE t == Append(s, a.data)
<1>1. /\ Len(t) = Len(s) + 1
      /\ \A i \in 1..Len(s) : t[i] = s[i]
      /\ t[Len(s) + 1] = a.data
  OBVIOUS
<1>2. a.data \in Bodies[Read[Len(s) + 1]]
  <2>1. a.form = "whole"
    BY WholeAnswers DEF Passes
  <2>2. a \notin Failures
    BY <2>1, ProbeAssumption DEF ProbeAssumption
  <2>. QED
    BY <2>2 DEF Answers, Whole
<1> HIDE DEF t
<1>3. CASE Len(s) = 0
  <2>1. AccountGate(a.data)
    BY <1>3 DEF Passes
  <2>. QED
    BY <1>1, <1>3, <2>1 DEF GateInv, t
<1>4. CASE Len(s) = 1
  <2>1. FetchDemoBookError(a) = "none" /\ BookGate(a.data)
    BY <1>4 DEF Passes
  <2>2. BookArrays \subseteq DOMAIN a.data
    BY <2>1 DEF FetchDemoBookError, TypedError, ValidBook
  <2>3. t[1] = s[1] /\ t[2] = a.data /\ Len(t) = 2
    BY <1>1, <1>4
  <2>. QED
    BY <1>4, <2>1, <2>2, <2>3 DEF GateInv, BookRead, t
<1>5. CASE Len(s) = 2
  <2>1. FindInstrumentError(a, "BTC") = "none" /\ InstrumentGate(a.data)
    BY <1>5 DEF Passes
  <2>2. ExactItems(a.data, "BTC") # {}
    BY <2>1 DEF FindInstrumentError
  <2>3. Len(a.data) \in Nat /\ DOMAIN a.data = 1..Len(a.data)
    BY <1>2, <1>5, ProbeAssumption DEF Read, ProbeAssumption
  <2>4. InstrumentRead(a.data)
    BY <2>1, <2>2, <2>3, ItemFound DEF InstrumentRead
  <2>5. t[1] = s[1] /\ t[2] = s[2] /\ t[3] = a.data /\ Len(t) = 3
    BY <1>1, <1>5
  <2>. QED
    BY <1>5, <2>4, <2>5 DEF GateInv, t
<1>6. CASE Len(s) = 3
  <2>1. FetchRateError(a, Instrument(s[3]).id) = "none" /\ QuoteGate(a.data)
    BY <1>6 DEF Passes
  <2>2. a.data.id = Instrument(s[3]).id /\ a.data.ask > a.data.bid
    BY <2>1 DEF FetchRateError, TypedError
  <2>3. a.data.bid \in Int /\ a.data.ask \in Int
    BY <1>2, <1>6, ProbeAssumption DEF Read, ProbeAssumption
  <2>4. /\ t[1] = s[1] /\ t[2] = s[2] /\ t[3] = s[3]
        /\ t[4] = a.data /\ Len(t) = 4
    BY <1>1, <1>6
  <2>. QED
    BY <1>6, <2>1, <2>2, <2>3, <2>4 DEF GateInv, QuoteRead, t
<1>7. CASE Len(s) = 4
  <2>1. /\ FetchDemoEligibilityError(a, Instrument(s[3]).id) = "none"
        /\ EligibilityGate(a.data)
    BY <1>7 DEF Passes
  <2>2. a.data.id = Instrument(s[3]).id /\ a.data.currency = "USD"
    BY <2>1 DEF FetchDemoEligibilityError, TypedError
  <2>3. Len(a.data.configs) \in Nat /\ DOMAIN a.data.configs = 1..Len(a.data.configs)
    BY <1>2, <1>7, ProbeAssumption DEF Read, ProbeAssumption
  <2>4. RealLongUnlevered(a.data)
    BY <2>1 DEF EligibilityGate
  <2>5. EligibilityRead(a.data, Instrument(s[3]).id)
    BY <2>1, <2>2, <2>3, <2>4, ConfigFound DEF EligibilityRead
  <2>6. /\ t[1] = s[1] /\ t[2] = s[2] /\ t[3] = s[3] /\ t[4] = s[4]
        /\ t[5] = a.data /\ Len(t) = 5
    BY <1>1, <1>7
  <2>. QED
    BY <1>7, <2>5, <2>6 DEF GateInv, t
<1>8. CASE Len(s) = 5
  <2>1. FetchDemoCostsError(a, Instrument(s[3]).id) = "none" /\ CostGate(a.data)
    BY <1>8 DEF Passes
  <2>2. /\ a.data.id = Instrument(s[3]).id
        /\ \A i \in DOMAIN a.data.items : a.data.items[i].currency = "USD"
    BY <2>1 DEF FetchDemoCostsError, TypedError
  <2>3. /\ t[1] = s[1] /\ t[2] = s[2] /\ t[3] = s[3] /\ t[4] = s[4] /\ t[5] = s[5]
        /\ t[6] = a.data /\ Len(t) = 6
    BY <1>1, <1>8
  <2>. QED
    BY <1>8, <2>1, <2>2, <2>3 DEF GateInv, CostRead, t
<1>. QED
  BY <1>3, <1>4, <1>5, <1>6, <1>7, <1>8

\* Six reads that passed their gates are what the document demands.
LEMMA GatesAreDocumented ==
    ASSUME NEW s, Len(s) = 6, GateInv(s)
    PROVE  Documented(s)
<1> DEFINE q == s[4]  e == s[5]  c == s[6]
<1>1. DocumentedAccount(s[1], s[2])
  BY DEF GateInv, AccountGate, RecentProviderTime, BookRead, BookGate, DocumentedAccount
<1>2. DocumentedMarket(s[3], q)
  <2>1. \E i \in DOMAIN s[3] : /\ s[3][i].symbol = "BTC" /\ s[3][i].id = q.id
                               /\ s[3][i].tradable /\ s[3][i].buyable
    BY DEF GateInv, InstrumentRead, QuoteRead, InstrumentGate
  <2>2. /\ q.quoteType = "realtime" /\ q.age <= 30
        /\ q.bid < q.ask /\ 200 * (q.ask - q.bid) <= q.bid
    BY DEF GateInv, QuoteRead, QuoteGate, RecentProviderTime
  <2>. QED
    BY <2>1, <2>2 DEF DocumentedMarket
<1>3. DocumentedTerms(e, c, q.id)
  <2>1. e.id = q.id /\ c.id = q.id
    BY DEF GateInv, EligibilityRead, CostRead, QuoteRead
  <2>2. /\ e.canOpen /\ e.symbol = "BTC" /\ e.currency = "USD" /\ e.minExposure <= 10000
        /\ \E i \in DOMAIN e.configs : e.configs[i].fits /\ e.configs[i].minimum <= 10000
    BY DEF GateInv, EligibilityRead, EligibilityGate
  <2>3. /\ c.age <= 120
        /\ \A i \in DOMAIN c.items : /\ c.items[i].type \in Immediate \cup Ongoing
                                     /\ c.items[i].currency = "USD"
                                     /\ c.items[i].type \in Ongoing => c.items[i].value = 0
        /\ Upfront(c.items) <= 200
    BY DEF GateInv, CostRead, CostGate, RecentProviderTime, Immediate, Ongoing
  <2>. QED
    BY <2>1, <2>2, <2>3 DEF DocumentedTerms
<1>. QED
  BY <1>1, <1>2, <1>3 DEF Documented

\* The evaluation's reads have passed their gates at every step.
LEMMA GatesHold == Spec => []GateInv(seen)
<1>1. Init => GateInv(seen)
  BY DEF Init, GateInv
<1>2. ASSUME Inv, GateInv(seen), [Next]_vars PROVE GateInv(seen)'
  <2>1. CASE ReadPasses
    <3>1. PICK a \in Answers(Len(seen) + 1, client) :
            Passes(seen, a) /\ seen' = Append(seen, a.data)
      BY <2>1 DEF ReadPasses
    <3>2. seen \in Seq(Data) /\ Len(seen) \in 0..5 /\ client \in Accounts
      BY <1>2, <2>1 DEF ReadPasses, Evaluating, Inv, SeenInv
    <3>3. a.data \in Data
      BY <3>1, <3>2, Captured
    <3>4. GateInv(Append(seen, a.data))
      BY <1>2, <3>1, <3>2, <3>3, GatesGrow
    <3>. QED
      BY <3>1, <3>4 DEF GateInv
  <2>2. CASE seen' = <<>>
    BY <2>2 DEF GateInv
  <2>3. CASE seen' = seen
    BY <1>2, <2>3 DEF GateInv
  <2>4. seen' \in {<<>>, seen} \/ ReadPasses
    BY <1>2 DEF Next, vars, evaluation, Begin, BeginUnarmed, ReadHolds, PreviewReady,
                RecheckHolds, SubmitIntent, Post, Record, DemoReconcile, ReconcileWith,
                BrokerProgress, Bind, Restart, Hold, Rest
  <2>. QED
    BY <2>1, <2>2, <2>3, <2>4
<1>. QED
  BY <1>1, <1>2, InvIsInvariant, PTL DEF Spec

\* Whatever the provider answers, an order is submitted only on six reads that meet
\* the conditions of docs/demo-btc-probe.md:7-9: the account's, the market's, and
\* those of the eligibility and the costs.
THEOREM SubmitsDocumented == Spec => SubmitsAsDocumented
<1> DEFINE Submits == status = "ready" /\ status' = "submitting" => Documented(seen)
<1>1. ASSUME Inv, GateInv(seen), [Next]_vars PROVE [Submits]_vars
  <2>1. SUFFICES ASSUME status = "ready", status' = "submitting"
                 PROVE  Documented(seen)
    OBVIOUS
  <2>2. SubmitIntent
    BY <1>1, <2>1
       DEF Next, vars, row, Inv, StageInv, Active, Begin, BeginUnarmed, ReadPasses,
           ReadHolds, PreviewReady, RecheckHolds, Post, Record, DemoReconcile,
           ReconcileWith, BrokerProgress, Bind, Restart, Hold
  <2>. QED
    BY <1>1, <2>2, GatesAreDocumented DEF SubmitIntent
<1>. QED
  BY <1>1, InvIsInvariant, GatesHold, PTL DEF Spec, SubmitsAsDocumented

-----------------------------------------------------------------------------
(* Final statuses, when a refusal is the provider's own *)

\* Recording the outcome of the POST: no refusal follows an accepted order.
LEMMA RecordIsTrue ==
    ASSUME ~LateRefusals, Inv, FinalStatusIsTrue, Record
    PROVE  FinalStatusIsTrue'
<1>1. UNCHANGED order
  BY DEF Record, broker
<1>2. CASE status # "submitting"
  BY <1>1, <1>2 DEF Record, FinalStatusIsTrue
<1>3. CASE status = "submitting"
  <2>1. PICK a \in SubmitAnswers : status' = Outcome(a)
    BY <1>3 DEF Record
  <2>2. order # NoOrder => a.status \notin (400..499) \ {429}
    BY <2>1 DEF SubmitAnswers, Whole
  <2>3. status' # "filled" /\ (order # NoOrder => status' # "rejected")
    BY <2>1, <2>2 DEF Outcome
  <2>4. QED
    BY <1>1, <2>3 DEF FinalStatusIsTrue
<1>4. QED
  BY <1>2, <1>3

\* A lookup that decides the run saw the order itself, with the account's key.
LEMMA ReconcileIsTrue ==
    ASSUME Inv, FinalStatusIsTrue, DemoReconcile
    PROVE  FinalStatusIsTrue'
<1>1. PICK a \in Lookups : status' = Reconciled(a)
  BY DEF DemoReconcile, ReconcileWith
<1>2. UNCHANGED order /\ status \in Active
  BY DEF DemoReconcile, ReconcileWith, broker
<1>3. CASE LookupDemoOrderError(a) # "none"
  BY <1>1, <1>2, <1>3 DEF Reconciled, FinalStatusIsTrue, Active
<1>4. CASE LookupDemoOrderError(a) = "none"
  <2>1. a.form = "whole"
    BY <1>4, WholeAnswers
  <2>2. a = Whole(200, OrderData)
    BY <2>1, ProbeAssumption DEF Lookups, LookupAnswers, NotFound, ProbeAssumption
  <2>3. a.data.statusId = order.statusId /\ a.data.positions = order.positions
    BY <2>2 DEF Whole, OrderData
  <2>4. order.positions \in 0..1
    BY DEF Inv, Typed
  <2>5. QED
    BY <1>1, <1>2, <1>4, <2>3, <2>4 DEF Reconciled, DemoLookupState, FinalStatusIsTrue
<1>5. QED
  BY <1>3, <1>4

\* A final status is the truth about the order: the broker's rejection or fill is
\* final, and a refusal is taken for one only when no order exists.
THEOREM FinalIsTrue ==
    ASSUME ~LateRefusals
    PROVE  Spec => []FinalStatusIsTrue
<1>1. Init => FinalStatusIsTrue
  BY DEF Init, FinalStatusIsTrue
<1>2. ASSUME Inv, FinalStatusIsTrue, [Next]_vars
      PROVE  FinalStatusIsTrue'
  <2>1. CASE Record
    BY <1>2, <2>1, RecordIsTrue
  <2>2. CASE DemoReconcile
    BY <1>2, <2>2, ReconcileIsTrue
  <2>3. CASE BrokerProgress
    <3>1. status \in {"filled", "rejected"} => order = NoOrder \/ order.statusId \in {3, 4}
      BY <1>2 DEF FinalStatusIsTrue
    <3>2. PICK s \in {3, 4, 5, 7}, n \in 0..1 :
            /\ order.statusId \in {1, 5, 7} \/ (order.statusId = 3 /\ s = 3)
            /\ n >= order.positions
            /\ order' = [order EXCEPT !.statusId = s, !.positions = n]
            /\ UNCHANGED status
      BY <2>3 DEF BrokerProgress, row
    <3>3. order \in [account : Accounts \cup {NoAccount}, instrument : {0, plan.instrument},
                     ask : Int, statusId : Nat, positions : 0..1]
      BY <1>2 DEF Inv, Typed
    <3>4. order'.statusId = s /\ order'.positions = n
      BY <3>2, <3>3
    <3>5. QED
      BY <1>2, <3>1, <3>2, <3>3, <3>4 DEF FinalStatusIsTrue, NoOrder
  <2>4. CASE Post
    BY <1>2, <2>4 DEF Post, row, Inv, StageInv, FinalStatusIsTrue
  <2>5. CASE UNCHANGED vars
    BY <1>2, <2>5 DEF vars, row, broker, FinalStatusIsTrue
  <2>6. CASE Bind \/ Restart \/ ReadPasses \/ \E p \in {"preview", "execute"} : Begin(p)
    BY <1>2, <2>6 DEF Bind, Restart, ReadPasses, Begin, row, broker, FinalStatusIsTrue
  <2>7. CASE \/ BeginUnarmed \/ ReadHolds \/ PreviewReady
             \/ RecheckHolds \/ SubmitIntent
    BY <2>7 DEF BeginUnarmed, ReadHolds, PreviewReady, RecheckHolds, SubmitIntent,
                Hold, broker, FinalStatusIsTrue
  <2>8. QED
    BY <1>2, <2>1, <2>2, <2>3, <2>4, <2>5, <2>6, <2>7 DEF Next
<1>3. QED
  BY <1>1, <1>2, InvIsInvariant, PTL DEF Spec

-----------------------------------------------------------------------------
(* DemoProbe implements DemoIntent: a preview decides, an intent transaction  *)
(* opens, the POST sends, and its record or a lookup settles.                 *)

phaseBar == [r \in {Reference} |-> PhaseOf(status)]
sentBar == [r \in {Reference} |-> posts]

\* Writing the outcome of a POST settles the open intent or is invisible.
LEMMA OutcomeSettles ==
    ASSUME UNCHANGED posts, posts = 1 \/ status' \notin {"filled", "rejected"},
           \/ status' = status
           \/ status \in Active /\ status' \in Active \cup {"filled", "rejected"}
    PROVE  Intent!Settle(Reference) \/ UNCHANGED <<phaseBar, sentBar>>
<1>1. CASE PhaseOf(status') = PhaseOf(status)
  BY <1>1 DEF phaseBar, sentBar
<1>2. CASE PhaseOf(status') # PhaseOf(status)
  <2>1. /\ PhaseOf(status) = "open" /\ posts = 1
        /\ PhaseOf(status') \in {"filled", "rejected"}
    BY <1>2 DEF PhaseOf, Active
  <2>2. /\ phaseBar[Reference] = "open" /\ sentBar[Reference] = 1
        /\ phaseBar' = [phaseBar EXCEPT ![Reference] = PhaseOf(status')]
        /\ UNCHANGED sentBar
    BY <2>1 DEF phaseBar, sentBar
  <2>. QED
    BY <2>1, <2>2 DEF Intent!Settle, Intent!Move, phaseBar, sentBar
<1>. QED
  BY <1>1, <1>2

\* A decision is held: at the preview, or before it was ever sent.
LEMMA HoldRefines ==
    ASSUME status \in {"none", "ready"}, Hold
    PROVE  Intent!Next
<1>1. UNCHANGED sentBar
  BY DEF Hold, broker, sentBar
<1>2. /\ phaseBar[Reference] = status
      /\ phaseBar' = [phaseBar EXCEPT ![Reference] = "hold"]
  BY DEF Hold, phaseBar, PhaseOf, Active
<1>3. Intent!Decide(Reference) \/ Intent!Withdraw(Reference)
  BY <1>1, <1>2 DEF Intent!Decide, Intent!Withdraw, Intent!Move, phaseBar, sentBar
<1>. QED
  BY <1>3 DEF Intent!Next

\* Every step of the process, the provider and the host is a step of the promise
\* or invisible.
LEMMA StepRefines ==
    ASSUME Inv, [Next]_vars
    PROVE  Intent!Next \/ UNCHANGED <<phaseBar, sentBar>>
<1>1. CASE BeginUnarmed \/ ReadHolds \/ RecheckHolds
  <2>1. status \in {"none", "ready"} /\ Hold
    BY <1>1 DEF BeginUnarmed, ReadHolds, RecheckHolds, Evaluating, Inv, StageInv
  <2>. QED
    BY <2>1, HoldRefines
<1>2. CASE PreviewReady
  <2>1. status = "none" /\ status' = "ready" /\ UNCHANGED posts
    BY <1>2 DEF PreviewReady, broker, Inv, StageInv
  <2>2. /\ phaseBar[Reference] = "none" /\ UNCHANGED sentBar
        /\ phaseBar' = [phaseBar EXCEPT ![Reference] = "ready"]
    BY <2>1 DEF phaseBar, sentBar, PhaseOf, Active
  <2>3. Intent!Decide(Reference)
    BY <2>2 DEF Intent!Decide, Intent!Move, phaseBar, sentBar
  <2>. QED
    BY <2>3 DEF Intent!Next
<1>3. CASE SubmitIntent
  <2>1. status = "ready" /\ status' = "submitting" /\ UNCHANGED posts
    BY <1>3 DEF SubmitIntent, broker, Inv, StageInv
  <2>2. /\ phaseBar[Reference] = "ready" /\ UNCHANGED sentBar
        /\ phaseBar' = [phaseBar EXCEPT ![Reference] = "open"]
    BY <2>1 DEF phaseBar, sentBar, PhaseOf, Active
  <2>3. Intent!OpenIntent(Reference)
    BY <2>2 DEF Intent!OpenIntent, Intent!Move, phaseBar, sentBar
  <2>. QED
    BY <2>3 DEF Intent!Next
<1>4. CASE Post
  <2>1. /\ status \in Active /\ UNCHANGED status
        /\ posts = 0 /\ posts' = 1
    BY <1>4 DEF Post, row, Inv, StageInv, PostsInv, Active
  <2>2. /\ phaseBar[Reference] = "open" /\ UNCHANGED phaseBar
        /\ sentBar[Reference] = 0 /\ sentBar' = [sentBar EXCEPT ![Reference] = 1]
    BY <2>1 DEF phaseBar, sentBar, PhaseOf
  <2>3. Intent!Send(Reference)
    BY <2>2 DEF Intent!Send, phaseBar, sentBar
  <2>. QED
    BY <2>3 DEF Intent!Next
<1>5. CASE Record
  <2>1. /\ UNCHANGED posts /\ posts = 1
        /\ \/ status' = status
           \/ status = "submitting" /\ status' \in {"accepted", "rejected", "unknown"}
    BY <1>5 DEF Record, Outcome, broker, Inv, PostsInv
  <2>. QED
    BY <2>1, OutcomeSettles DEF Active, Intent!Next
<1>6. CASE DemoReconcile
  <2>1. PICK a \in Lookups : status' = Reconciled(a)
    BY <1>6 DEF DemoReconcile, ReconcileWith
  <2>2. status \in Active /\ UNCHANGED posts
    BY <1>6 DEF DemoReconcile, ReconcileWith, broker
  <2>3. status' \in Active \cup {"filled", "rejected"}
    BY <2>1, <2>2 DEF Reconciled, DemoLookupState, Active
  <2>4. posts = 1 \/ status' \notin {"filled", "rejected"}
    <3>1. CASE order = NoOrder
      <4>1. a.form # "whole"
        BY <2>1, <3>1, ProbeAssumption DEF Lookups, LookupAnswers, NotFound, ProbeAssumption
      <4>2. status' \in Active
        BY <2>1, <2>2, <4>1, WholeAnswers DEF Reconciled, Active
      <4>. QED
        BY <4>2 DEF Active
    <3>2. CASE order # NoOrder
      BY <3>2 DEF Inv, PostsInv
    <3>. QED
      BY <3>1, <3>2
  <2>. QED
    BY <2>2, <2>3, <2>4, OutcomeSettles DEF Intent!Next
<1>7. CASE \/ \E p \in {"preview", "execute"} : Begin(p)
           \/ ReadPasses \/ BrokerProgress \/ Bind \/ Restart \/ UNCHANGED vars
  BY <1>7 DEF Begin, ReadPasses, BrokerProgress, Bind, Restart, vars, row, broker,
              phaseBar, sentBar
<1>. QED
  BY <1>1, <1>2, <1>3, <1>4, <1>5, <1>6, <1>7 DEF Next

\* Between reads, restarts and keys of other accounts, a run keeps the promise of
\* DemoIntent: one intent per plan, sent at most once, settled only once sent.
THEOREM ProbeKeepsIntentPromise == Spec => KeepsIntentPromise
<1>1. Init => Intent!Init
  BY DEF Init, PhaseOf, Active, Intent!Init
<1>2. Inv /\ [Next]_vars => [Intent!Next]_<<phaseBar, sentBar>>
  BY StepRefines
<1>. QED
  BY <1>1, <1>2, InvIsInvariant, PTL
     DEF Spec, KeepsIntentPromise, Intent!Spec, phaseBar, sentBar
=============================================================================
