----------------------------- MODULE ReplayProofs -----------------------------
(***************************************************************************)
(* Proofs about ReplayPipeline, for any sets of keys, experiments, datasets*)
(* and workers, any number of crashes and of messages per run.             *)
(***************************************************************************)
EXTENDS ReplayPipeline, FiniteSetTheorems, TLAPS

Known(k) == run[k].status # "none"

\* The type invariant needs that only finitely many runs exist: created_at and
\* finished_at count them.
Typed == TypeOK /\ IsFiniteSet(Existing)

\* Whatever refers to a run refers to one that was accepted.
ReferenceInv ==
    /\ \A k \in Keys : outbox[k] = "pending" => Known(k)
    /\ \A k \in batch \cup dedup : Known(k)
    /\ relay # NoKey => Known(relay)
    /\ \A m \in Messages : stream[m] # "new" => Known(m[1])
    /\ \A w \in Workers : pc[w] # "idle" => Known(RunOf(w))

\* Why no run is lost: before its outbox row is marked, and while its ID
\* suppresses duplicates, the stream holds a message for it.
DeliveryInv ==
    /\ NoLostRun
    /\ relay # NoKey /\ run[relay].status = "queued" => Live(relay)
    /\ \A k \in dedup : run[k].status = "queued" => Live(k)

\* What a worker may assume of the run in its hands.
WorkerInv ==
    /\ \A w \in Workers :
         /\ pc[w] = "commit" => /\ run[RunOf(w)].status = "queued"
                                /\ read[w] = run[RunOf(w)]
         /\ pc[w] \in {"cache", "reply"} => run[RunOf(w)].status \in Finished
         /\ pc[w] = "cache" => run[RunOf(w)].status = "completed"
    /\ \A v, w \in Workers :
         v # w /\ pc[v] = "commit" /\ pc[w] = "commit" => RunOf(v) # RunOf(w)

ResultInv ==
    /\ ResultIsOfQueuedInput
    /\ KeyNamesOneExperiment
    /\ CacheIsBehindTable
    /\ \A k \in Keys : ~Known(k) => run[k] = NoRow

PipelineInv == Typed /\ ReferenceInv /\ DeliveryInv /\ WorkerInv /\ ResultInv

-----------------------------------------------------------------------------
(* Types *)

\* The empty row and the empty result are typed.
LEMMA RowType ==
    /\ NoRow \in Row
    /\ NoResult \in (Inputs \cup {NoInput}) \X (Versions \cup {NoVersion})
BY DEF NoRow, NoResult, Row

\* A message has a run.
LEMMA MessageHasRun ==
    ASSUME TypeOK, NEW w \in Workers, pc[w] # "idle"
    PROVE  task[w] \in Messages /\ RunOf(w) \in Keys
BY DEF TypeOK, WorkersType, Messages, RunOf

\* The initial state is well typed.
LEMMA TypedInit == Init => Typed
<1> SUFFICES ASSUME Init PROVE Typed
  OBVIOUS
<1>1. TypeOK
  BY RowType DEF Init, TypeOK, TablesType, RelayType, WorkersType, QueueType,
                 HostType, MessageState
<1>2. Existing = {}
  BY DEF Init, Existing, NoRow
<1>. QED  BY <1>1, <1>2, FS_EmptySet DEF Typed

\* A change of rows that creates no run leaves Existing finite.
LEMMA NoNewRun ==
    ASSUME IsFiniteSet(Existing),
           \A k \in Keys : run'[k].status # "none" => run[k].status # "none"
    PROVE  IsFiniteSet(Existing)'
<1>1. Existing' \subseteq Existing
  BY DEF Existing
<1>. QED  BY <1>1, FS_Subset

\* Enqueue keeps the types and adds at most one run.
LEMMA EnqueueTyped == ASSUME Typed, Enqueue PROVE Typed'
<1>0. /\ TypeOK /\ TablesType /\ RelayType /\ WorkersType /\ QueueType /\ HostType
      /\ IsFiniteSet(Existing)
  BY DEF Typed, TypeOK
<1>1. ASSUME NEW k \in Keys, NEW x \in Inputs, Accept(k, x) PROVE Typed'
  <2>1. [status |-> "queued", input |-> x, hash |-> version, result |-> NoResult] \in Row
    BY <1>0, RowType DEF Row, HostType
  <2>2. /\ run' \in [Keys -> Row]
        /\ outbox' \in [Keys -> {"none", "pending", "published"}]
        /\ answered' \in [Keys -> SUBSET Inputs]
    BY <1>0, <1>1, <2>1 DEF TablesType, Accept
  <2>3. born' \in [Keys -> Nat] /\ finished' \in [Keys -> Nat]
    <3>1. Cardinality(Existing) \in Nat
      BY <1>0, FS_CardinalityType
    <3>. QED  BY <1>0, <1>1, <3>1 DEF TablesType, Accept
  <2>4. RelayType' /\ WorkersType' /\ QueueType' /\ HostType'
    BY <1>0, <1>1 DEF Accept, relays, workers, queue, host,
                      RelayType, WorkersType, QueueType, HostType
  <2>5. IsFiniteSet(Existing)'
    <3>1. Existing' = Existing \cup {k}
      BY <1>0, <1>1 DEF Accept, Existing, TablesType
    <3>. QED  BY <1>0, <3>1, FS_AddElement
  <2>. QED  BY <2>2, <2>3, <2>4, <2>5 DEF Typed, TypeOK, TablesType
<1>2. ASSUME NEW k \in Keys, NEW x \in Inputs, Replay(k, x) PROVE Typed'
  <2>1. TypeOK'
    BY <1>0, <1>2 DEF Replay, relays, workers, queue, host, TypeOK, TablesType,
                      RelayType, WorkersType, QueueType, HostType
  <2>2. Existing' = Existing
    BY <1>2 DEF Replay, Existing
  <2>. QED  BY <1>0, <2>1, <2>2 DEF Typed
<1>. QED  BY <1>1, <1>2 DEF Enqueue

\* The relay keeps the types.
LEMMA DispatchTyped == ASSUME Typed, Dispatch PROVE Typed'
<1>0. /\ TypeOK /\ TablesType /\ RelayType /\ WorkersType /\ QueueType /\ HostType
      /\ IsFiniteSet(Existing)
  BY DEF Typed, TypeOK
<1>1. run' = run
  BY DEF Dispatch, RelayRead, RelayPublish, RelayMark, RelayAbandon, tables
<1>2. Existing' = Existing
  BY <1>1 DEF Existing
<1>3. CASE RelayRead
  BY <1>0, <1>2, <1>3 DEF RelayRead, Batches, Pending, tables, workers, queue, host,
         Typed, TypeOK, TablesType, RelayType, WorkersType, QueueType, HostType
<1>4. CASE RelayPublish
  <2>1. QueueType'
    BY <1>0, <1>4 DEF RelayPublish, RelayType, QueueType, queue, Messages, MessageState
  <2>2. TablesType' /\ RelayType' /\ WorkersType' /\ HostType'
    BY <1>0, <1>4 DEF RelayPublish, tables, workers, host, TablesType, RelayType,
                      WorkersType, HostType
  <2>. QED  BY <1>0, <1>2, <2>1, <2>2 DEF Typed, TypeOK
<1>5. CASE RelayMark
  BY <1>0, <1>2, <1>5 DEF RelayMark, workers, queue, host,
         Typed, TypeOK, TablesType, RelayType, WorkersType, QueueType, HostType
<1>6. CASE RelayAbandon
  BY <1>0, <1>2, <1>6 DEF RelayAbandon, tables, workers, queue, host,
         Typed, TypeOK, TablesType, RelayType, WorkersType, QueueType, HostType
<1>. QED  BY <1>3, <1>4, <1>5, <1>6 DEF Dispatch

\* A worker step keeps the types.
LEMMA WorkTyped == ASSUME Typed, NEW w \in Workers, Work(w) PROVE Typed'
<1>0. /\ TypeOK /\ TablesType /\ RelayType /\ WorkersType /\ QueueType /\ HostType
      /\ IsFiniteSet(Existing)
  BY DEF Typed, TypeOK
<1>1. ASSUME NEW m \in Messages, Fetch(w, m) PROVE Typed'
  <2>1. Existing' = Existing
    BY <1>1 DEF Fetch, tables, Existing
  <2>. QED  BY <1>0, <1>1, <2>1 DEF Fetch, tables, relays, host, MessageState,
         Typed, TypeOK, TablesType, RelayType, WorkersType, QueueType, HostType
<1>2. CASE LockRun(w)
  <2>1. Existing' = Existing
    BY <1>2 DEF LockRun, tables, Existing
  <2>2. RunOf(w) \in Keys /\ task[w] \in Messages
    BY <1>0, <1>2, MessageHasRun DEF LockRun
  <2>3. WorkersType'
    BY <1>0, <1>2, <2>2 DEF LockRun, WorkersType, TablesType
  <2>. QED  BY <1>0, <1>2, <2>1, <2>3 DEF LockRun, tables, relays, queue, host,
         Typed, TypeOK, TablesType, RelayType, QueueType, HostType
<1>3. CASE CommitRun(w)
  <2>1. RunOf(w) \in Keys /\ task[w] \in Messages
    BY <1>0, <1>3, MessageHasRun DEF CommitRun
  <2>2. run' \in [Keys -> Row]
    <3>1. read[w] \in Row /\ version \in Versions
      BY <1>0 DEF WorkersType, HostType
    <3>2. <<read[w].input, version>> \in (Inputs \cup {NoInput}) \X (Versions \cup {NoVersion})
      BY <3>1 DEF Row
    <3>3. ASSUME NEW r \in Row
          PROVE  /\ [r EXCEPT !.status = "failed"] \in Row
                 /\ [r EXCEPT !.status = "completed",
                              !.result = <<read[w].input, version>>] \in Row
      BY <3>2 DEF Row, Finished
    <3>4. run \in [Keys -> Row] /\ run[RunOf(w)] \in Row
      BY <1>0, <2>1 DEF TablesType
    <3>5. \/ run' = [run EXCEPT ![RunOf(w)] = [run[RunOf(w)] EXCEPT !.status = "failed"]]
          \/ run' = [run EXCEPT ![RunOf(w)] =
                       [run[RunOf(w)] EXCEPT !.status = "completed",
                                             !.result = <<read[w].input, version>>]]
      BY <1>3, <2>1, <3>4, Zenon DEF CommitRun
    <3>. QED  BY <2>1, <3>3, <3>4, <3>5
  <2>3. IsFiniteSet(Existing)'
    <3>1. Existing' \subseteq Existing \cup {RunOf(w)}
      BY <1>0, <1>3, <2>1 DEF CommitRun, TablesType, Existing
    <3>2. IsFiniteSet(Existing \cup {RunOf(w)})
      BY <1>0, FS_AddElement
    <3>. QED  BY <3>1, <3>2, FS_Subset
  <2>4. finished' \in [Keys -> Nat]
    <3>1. {j \in Keys : run[j].status \in Finished} \subseteq Existing
      BY DEF Existing, Finished
    <3>2. Cardinality({j \in Keys : run[j].status \in Finished}) \in Nat
      BY <1>0, <3>1, FS_Subset, FS_CardinalityType
    <3>3. finished' = [finished EXCEPT ![RunOf(w)] =
                         1 + Cardinality({j \in Keys : run[j].status \in Finished})]
      BY <1>3 DEF CommitRun
    <3>. QED  BY <1>0, <2>1, <3>2, <3>3 DEF TablesType
  <2>5. WorkersType'
    BY <1>0, <1>3, <2>1, RowType DEF CommitRun, WorkersType
  <2>6. TablesType' /\ RelayType' /\ QueueType' /\ HostType'
    BY <1>0, <1>3, <2>2, <2>4 DEF CommitRun, relays, queue, host,
         TablesType, RelayType, QueueType, HostType
  <2>. QED  BY <2>3, <2>5, <2>6 DEF Typed, TypeOK
<1>4. CASE CacheResult(w)
  <2>1. RunOf(w) \in Keys /\ task[w] \in Messages /\ Existing' = Existing
    BY <1>0, <1>4, MessageHasRun DEF CacheResult, tables, Existing
  <2>. QED  BY <1>0, <1>4, <2>1 DEF CacheResult, tables, relays, queue, host,
         Typed, TypeOK, TablesType, RelayType, WorkersType, QueueType, HostType
<1>5. CASE Ack(w)
  <2>1. task[w] \in Messages /\ Existing' = Existing
    BY <1>0, <1>5, MessageHasRun DEF Ack, MayAck, tables, Existing
  <2>. QED  BY <1>0, <1>5, <2>1, RowType DEF Ack, MayAck, tables, relays, host,
         MessageState, Typed, TypeOK, TablesType, RelayType, WorkersType,
         QueueType, HostType
<1>6. CASE GiveUp(w)
  <2>1. Existing' = Existing
    BY <1>6 DEF GiveUp, tables, Existing
  <2>. QED  BY <1>0, <1>6, <2>1, RowType DEF GiveUp, tables, relays, queue, host,
         Typed, TypeOK, TablesType, RelayType, WorkersType, QueueType, HostType
<1>. QED  BY <1>1, <1>2, <1>3, <1>4, <1>5, <1>6 DEF Work

\* The stream and a restart keep the types.
LEMMA ExternalTyped == ASSUME Typed, External PROVE Typed'
<1>0. /\ TypeOK /\ TablesType /\ RelayType /\ WorkersType /\ QueueType /\ HostType
      /\ IsFiniteSet(Existing)
  BY DEF Typed, TypeOK
<1>1. run' = run
  BY DEF External, Redeliver, ForgetId, Restart, tables
<1>2. Existing' = Existing
  BY <1>1 DEF Existing
<1>3. ASSUME NEW m \in Messages, Redeliver(m) PROVE Typed'
  BY <1>0, <1>2, <1>3 DEF Redeliver, tables, relays, workers, host, MessageState,
         Typed, TypeOK, TablesType, RelayType, WorkersType, QueueType, HostType
<1>4. ASSUME NEW k \in Keys, ForgetId(k) PROVE Typed'
  BY <1>0, <1>2, <1>4 DEF ForgetId, tables, relays, workers, host,
         Typed, TypeOK, TablesType, RelayType, WorkersType, QueueType, HostType
<1>5. CASE Restart
  BY <1>0, <1>2, <1>5, RowType DEF Restart, tables, queue,
         Typed, TypeOK, TablesType, RelayType, WorkersType, QueueType, HostType
<1>. QED  BY <1>3, <1>4, <1>5 DEF External

\* Every step keeps the types.
LEMMA TypedStep == ASSUME Typed, [Next]_vars PROVE Typed'
<1>1. CASE UNCHANGED vars
  BY <1>1 DEF vars, tables, relays, workers, queue, host, Typed, Existing,
         TypeOK, TablesType, RelayType, WorkersType, QueueType, HostType
<1>. QED  BY <1>1, EnqueueTyped, DispatchTyped, WorkTyped, ExternalTyped DEF Next

\* Every reachable state is well typed, and only finitely many runs exist.
LEMMA AlwaysTyped == Spec => []Typed
<1>. QED  BY TypedInit, TypedStep, PTL DEF Spec

\* The type invariant holds for any number of keys, messages and crashes.
THEOREM ReplayTypeCorrect == Spec => []TypeOK
<1>1. Typed => TypeOK
  BY DEF Typed
<1>. QED  BY <1>1, AlwaysTyped, PTL

-----------------------------------------------------------------------------
(* The inductive invariant *)

\* What the steps below need of it about types.
LEMMA TypedFacts ==
    ASSUME Typed
    PROVE  /\ TypeOK /\ run \in [Keys -> Row]
           /\ outbox \in [Keys -> {"none", "pending", "published"}]
           /\ answered \in [Keys -> SUBSET Inputs]
           /\ stream \in [Messages -> MessageState] /\ dedup \subseteq Keys
           /\ batch \subseteq Keys /\ relay \in Keys \cup {NoKey} /\ cache \subseteq Keys
           /\ pc \in [Workers -> {"idle", "begin", "commit", "cache", "reply"}]
           /\ task \in [Workers -> Messages \cup {NoMessage}]
           /\ read \in [Workers -> Row]
BY DEF Typed, TypeOK, TablesType, RelayType, WorkersType, QueueType

\* The initial state satisfies the invariant.
LEMMA PipelineInit == Init => PipelineInv
<1> SUFFICES ASSUME Init PROVE PipelineInv
  OBVIOUS
<1>1. Typed
  BY TypedInit
<1>2. \A k \in Keys : run[k] = NoRow /\ run[k].status = "none"
  BY DEF Init, NoRow
<1>3. ReferenceInv /\ DeliveryInv /\ WorkerInv
  BY <1>2 DEF Init, ReferenceInv, DeliveryInv, NoLostRun, WorkerInv
<1>4. ResultInv
  BY <1>2 DEF Init, ResultInv, ResultIsOfQueuedInput, KeyNamesOneExperiment,
              CacheIsBehindTable, NoRow, Known
<1>. QED  BY <1>1, <1>3, <1>4 DEF PipelineInv

\* Accepting a run touches nothing that refers to a run.
LEMMA AcceptKeepsInv ==
    ASSUME PipelineInv, NEW k \in Keys, NEW x \in Inputs, Accept(k, x)
    PROVE  (ReferenceInv /\ DeliveryInv /\ WorkerInv /\ ResultInv)'
<1>. DEFINE new == [status |-> "queued", input |-> x, hash |-> version, result |-> NoResult]
<1>0. /\ Typed /\ ReferenceInv /\ DeliveryInv /\ WorkerInv /\ ResultInv
      /\ run \in [Keys -> Row] /\ outbox \in [Keys -> {"none", "pending", "published"}]
      /\ answered \in [Keys -> SUBSET Inputs] /\ ~Known(k) /\ TypeOK
  BY TypedFacts DEF PipelineInv, Accept, Known
<1>1. /\ run'[k] = new /\ outbox'[k] = "pending"
      /\ \A j \in Keys \ {k} : run'[j] = run[j] /\ outbox'[j] = outbox[j]
      /\ UNCHANGED <<relays, workers, cache, queue, host>>
  BY <1>0 DEF Accept
<1>2. run'[k].status = "queued" /\ run'[k].input = x /\ run'[k].result = NoResult
  BY <1>1
<1>3. \A w \in Workers : pc[w] # "idle" => RunOf(w) \in Keys \ {k}
  BY <1>0, MessageHasRun DEF ReferenceInv
<1>4. ReferenceInv'
  BY <1>0, <1>1, <1>2, <1>3 DEF ReferenceInv, relays, workers, queue, Known, RunOf,
        Messages, TypeOK, RelayType, QueueType
<1>5. DeliveryInv'
  BY <1>0, <1>1, <1>2 DEF DeliveryInv, ReferenceInv, NoLostRun, Live, relays, queue,
        TypeOK, RelayType, QueueType
<1>6. WorkerInv'
  BY <1>0, <1>1, <1>3 DEF WorkerInv, workers, RunOf
<1>7. ResultInv'
  <2>1. answered[k] = {}
    <3>1. run[k].input = NoInput /\ answered[k] \subseteq Inputs
      BY <1>0 DEF ResultInv, NoRow
    <3>. QED  BY <1>0, <3>1, ReplayAssumption DEF ResultInv, KeyNamesOneExperiment
  <2>2. /\ answered'[k] \subseteq {x}
        /\ \A j \in Keys \ {k} : answered'[j] = answered[j]
    BY <1>0, <2>1 DEF Accept
  <2>3. KeyNamesOneExperiment'
    BY <1>0, <1>1, <1>2, <2>2 DEF ResultInv, KeyNamesOneExperiment
  <2>4. ResultIsOfQueuedInput'
    BY <1>0, <1>1, <1>2 DEF ResultInv, ResultIsOfQueuedInput, NoResult
  <2>5. CacheIsBehindTable'
    BY <1>0, <1>1 DEF ResultInv, CacheIsBehindTable, Known, TypeOK, QueueType
  <2>6. \A j \in Keys : ~Known(j)' => run'[j] = NoRow
    BY <1>0, <1>1, <1>2 DEF ResultInv, Known
  <2>. QED  BY <2>3, <2>4, <2>5, <2>6 DEF ResultInv, NoRow, NoResult
<1>. QED  BY <1>4, <1>5, <1>6, <1>7

\* Returning a stored run's ID changes only what was answered.
LEMMA ReplayKeepsInv ==
    ASSUME PipelineInv, NEW k \in Keys, NEW x \in Inputs, Replay(k, x)
    PROVE  (ReferenceInv /\ DeliveryInv /\ WorkerInv /\ ResultInv)'
<1>0. /\ Typed /\ ReferenceInv /\ DeliveryInv /\ WorkerInv /\ ResultInv
      /\ answered \in [Keys -> SUBSET Inputs]
  BY TypedFacts DEF PipelineInv
<1>1. (ReferenceInv /\ DeliveryInv /\ WorkerInv)'
  BY <1>0 DEF Replay, relays, workers, queue, ReferenceInv, DeliveryInv, NoLostRun,
              Live, WorkerInv, Known, RunOf
<1>2. ResultInv'
  BY <1>0 DEF Replay, SameExperiment, ResultInv, ResultIsOfQueuedInput,
              KeyNamesOneExperiment, CacheIsBehindTable, Known
<1>. QED  BY <1>1, <1>2

\* The relay publishes before it marks, and gives up without marking.
LEMMA DispatchKeepsInv ==
    ASSUME PipelineInv, Dispatch
    PROVE  (ReferenceInv /\ DeliveryInv /\ WorkerInv /\ ResultInv)'
<1>0. /\ Typed /\ ReferenceInv /\ DeliveryInv /\ WorkerInv /\ ResultInv
      /\ outbox \in [Keys -> {"none", "pending", "published"}]
      /\ stream \in [Messages -> MessageState] /\ dedup \subseteq Keys
      /\ batch \subseteq Keys /\ relay \in Keys \cup {NoKey}
  BY TypedFacts DEF PipelineInv
<1>1. UNCHANGED <<run, answered, workers, cache>>
  BY DEF Dispatch, RelayRead, RelayPublish, RelayMark, RelayAbandon, tables
<1>2. WorkerInv' /\ ResultInv'
  BY <1>0, <1>1 DEF WorkerInv, ResultInv, workers, RunOf, Known, ResultIsOfQueuedInput,
                    KeyNamesOneExperiment, CacheIsBehindTable
<1>3. CASE RelayRead
  <2>1. batch' \subseteq Pending /\ UNCHANGED <<run, outbox, relay, queue>>
    BY <1>3 DEF RelayRead, Batches, tables
  <2>2. ReferenceInv' /\ DeliveryInv'
    BY <1>0, <1>1, <2>1 DEF Pending, queue, workers, ReferenceInv, DeliveryInv,
                            NoLostRun, Live, Known, RunOf
  <2>. QED  BY <1>2, <2>2
<1>4. CASE RelayPublish
  <2>1. PICK k \in batch :
          /\ relay' = k
          /\ IF k \in dedup THEN UNCHANGED queue
             ELSE \E c \in Copies :
                    /\ stream[<<k, c>>] = "new"
                    /\ stream' = [stream EXCEPT ![<<k, c>>] = "stored"]
                    /\ dedup' = dedup \cup {k}
    BY <1>4 DEF RelayPublish
  <2>2. UNCHANGED <<run, outbox, batch>> /\ k \in Keys /\ Known(k)
    BY <1>0, <1>4 DEF RelayPublish, tables, ReferenceInv
  <2>3. CASE k \in dedup
    BY <1>0, <1>1, <1>2, <2>1, <2>2, <2>3 DEF queue, workers, ReferenceInv, DeliveryInv,
                            NoLostRun, Live, Known, RunOf
  <2>4. CASE k \notin dedup
    <3>1. PICK c \in Copies :
            /\ stream[<<k, c>>] = "new"
            /\ stream' = [stream EXCEPT ![<<k, c>>] = "stored"]
            /\ dedup' = dedup \cup {k}
      BY <2>1, <2>4
    <3>2. <<k, c>> \in Messages
      BY <2>2 DEF Messages
    <3>3. /\ stream'[<<k, c>>] = "stored"
          /\ \A m \in Messages : m # <<k, c>> => stream'[m] = stream[m]
      BY <1>0, <3>1, <3>2
    <3>4. \A j \in Keys : Live(j) => Live(j)'
      BY <1>0, <3>1, <3>2, <3>3 DEF Live, Messages
    <3>5. Live(k)'
      BY <3>3 DEF Live
    <3>6. ReferenceInv'
      BY <1>0, <1>1, <2>1, <2>2, <3>1, <3>2, <3>3 DEF ReferenceInv, workers, Known, RunOf
    <3>7. DeliveryInv'
      BY <1>0, <1>1, <2>1, <2>2, <3>1, <3>4, <3>5 DEF DeliveryInv, NoLostRun
    <3>. QED  BY <1>2, <3>6, <3>7
  <2>. QED  BY <2>3, <2>4
<1>5. CASE RelayMark \/ RelayAbandon
  <2>1. /\ UNCHANGED <<run, queue>> /\ relay' = NoKey /\ batch' \subseteq batch
        /\ \A k \in Keys : outbox'[k] # outbox[k] =>
               k = relay /\ relay # NoKey /\ outbox'[k] = "published"
    BY <1>0, <1>5 DEF RelayMark, RelayAbandon, tables
  <2>2. ReferenceInv'
    BY <1>0, <1>1, <2>1 DEF ReferenceInv, queue, workers, Known, RunOf
  <2>3. DeliveryInv'
    BY <1>0, <2>1 DEF DeliveryInv, NoLostRun, Live, queue
  <2>. QED  BY <1>2, <2>2, <2>3
<1>. QED  BY <1>3, <1>4, <1>5 DEF Dispatch

\* A worker finishes a run only while it holds the run's lock, and acknowledges
\* a message only of a finished run.
LEMMA WorkKeepsInv ==
    ASSUME PipelineInv, NEW w \in Workers, Work(w)
    PROVE  (ReferenceInv /\ DeliveryInv /\ WorkerInv /\ ResultInv)'
<1>0. /\ Typed /\ ReferenceInv /\ DeliveryInv /\ WorkerInv /\ ResultInv /\ TypeOK
      /\ run \in [Keys -> Row]
      /\ stream \in [Messages -> MessageState] /\ dedup \subseteq Keys
      /\ batch \subseteq Keys /\ relay \in Keys \cup {NoKey} /\ cache \subseteq Keys
      /\ pc \in [Workers -> {"idle", "begin", "commit", "cache", "reply"}]
      /\ task \in [Workers -> Messages \cup {NoMessage}]
      /\ read \in [Workers -> Row]
  BY TypedFacts DEF PipelineInv
<1>1. ASSUME NEW m \in Messages, Fetch(w, m)
      PROVE  (ReferenceInv /\ DeliveryInv /\ WorkerInv /\ ResultInv)'
  <2>1. /\ UNCHANGED <<run, outbox, answered, relays, read, cache, dedup>>
        /\ stream[m] # "new" /\ stream[m] \in {"stored", "due"}
        /\ stream' = [stream EXCEPT ![m] = "held"]
        /\ pc' = [pc EXCEPT ![w] = "begin"] /\ task' = [task EXCEPT ![w] = m]
    BY <1>1 DEF Fetch, MayDeliver, tables
  <2>2. \A k \in Keys : Live(k) => Live(k)'
    BY <1>0, <2>1 DEF Live, Messages
  <2>3. Known(m[1]) /\ \A v \in Workers \ {w} : RunOf(v)' = RunOf(v) /\ pc'[v] = pc[v]
    BY <1>0, <2>1 DEF ReferenceInv, RunOf
  <2>4. pc'[w] = "begin" /\ RunOf(w)' = m[1]
    BY <1>0, <2>1 DEF RunOf
  <2>5. ReferenceInv'
    BY <1>0, <2>1, <2>3, <2>4 DEF ReferenceInv, relays, Known
  <2>6. DeliveryInv'
    BY <1>0, <2>1, <2>2 DEF DeliveryInv, NoLostRun, relays
  <2>7. WorkerInv'
    BY <1>0, <2>1, <2>3, <2>4 DEF WorkerInv
  <2>8. ResultInv'
    BY <1>0, <2>1 DEF ResultInv, Known, ResultIsOfQueuedInput, KeyNamesOneExperiment,
                      CacheIsBehindTable
  <2>. QED  BY <2>5, <2>6, <2>7, <2>8
<1>2. CASE LockRun(w)
  <2>1. /\ UNCHANGED <<run, outbox, answered, relays, task, cache, queue>>
        /\ pc[w] = "begin" /\ Unlocked(w)
        /\ \/ /\ run[RunOf(w)].status = "queued"
              /\ pc' = [pc EXCEPT ![w] = "commit"]
              /\ read' = [read EXCEPT ![w] = run[RunOf(w)]]
           \/ /\ run[RunOf(w)].status # "queued"
              /\ pc' = [pc EXCEPT ![w] = "reply"] /\ UNCHANGED read
    BY <1>2 DEF LockRun, Unfinished, tables
  <2>2. RunOf(w) \in Keys /\ Known(RunOf(w))
    BY <1>0, <2>1, MessageHasRun DEF ReferenceInv
  <2>3. run[RunOf(w)].status \in {"queued"} \cup Finished
    <3>1. run[RunOf(w)] \in Row
      BY <1>0, <2>2
    <3>. QED  BY <2>2, <3>1 DEF Row, Known
  <2>4. ReferenceInv' /\ DeliveryInv' /\ ResultInv'
    BY <1>0, <2>1, <2>2 DEF relays, queue, ReferenceInv, DeliveryInv, ResultInv, NoLostRun,
         Live, Known, RunOf, ResultIsOfQueuedInput, KeyNamesOneExperiment,
         CacheIsBehindTable
  <2>5. \A v \in Workers : RunOf(v)' = RunOf(v)
    BY <2>1 DEF RunOf
  <2>6. WorkerInv'
    BY <1>0, <2>1, <2>2, <2>3, <2>5 DEF WorkerInv, Unlocked
  <2>. QED  BY <2>4, <2>6
<1>3. CASE CommitRun(w)
  <2>. DEFINE k == RunOf(w)
  <2>1. /\ UNCHANGED <<outbox, answered, relays, task, cache, queue>>
        /\ pc[w] = "commit" /\ read' = [read EXCEPT ![w] = NoRow]
    BY <1>3 DEF CommitRun
  <2>2. k \in Keys /\ run[k] \in Row /\ run[k].status = "queued" /\ read[w] = run[k]
    BY <1>0, <2>1, MessageHasRun DEF WorkerInv
  <2>3. \/ /\ run[k].hash = version /\ pc' = [pc EXCEPT ![w] = "cache"]
           /\ run' = [run EXCEPT ![k].status = "completed",
                                 ![k].result = <<run[k].input, run[k].hash>>]
        \/ /\ pc' = [pc EXCEPT ![w] = "reply"]
           /\ run' = [run EXCEPT ![k].status = "failed"]
    BY <1>3, <2>2 DEF CommitRun, SameDataset
  <2>4. /\ \A j \in Keys \ {k} : run'[j] = run[j]
        /\ run'[k].input = run[k].input /\ run'[k].hash = run[k].hash
        /\ \/ /\ run'[k].status = "completed" /\ pc'[w] = "cache"
              /\ run'[k].result = <<run[k].input, run[k].hash>>
           \/ /\ run'[k].status = "failed" /\ pc'[w] = "reply"
              /\ run'[k].result = run[k].result
    BY <1>0, <2>2, <2>3 DEF Row
  <2>5. \A v \in Workers \ {w} : pc'[v] = pc[v] /\ read'[v] = read[v]
    BY <1>0, <2>1, <2>3
  <2>6. /\ \A v \in Workers : RunOf(v)' = RunOf(v)
        /\ \A v \in Workers \ {w} : pc[v] = "commit" => RunOf(v) # k
        /\ \A v \in Workers : pc[v] # "idle" => RunOf(v) \in Keys
    BY <1>0, <2>1, MessageHasRun DEF RunOf, WorkerInv
  <2>7. \A j \in Keys : /\ Known(j)' <=> Known(j)
                        /\ run'[j].status = "queued" => run[j].status = "queued" /\ j # k
    BY <2>2, <2>4 DEF Known
  <2>8. ReferenceInv'
    <3>1. \A m \in Messages : m[1] \in Keys
      BY DEF Messages
    <3>. QED  BY <1>0, <2>1, <2>5, <2>6, <2>7, <3>1 DEF ReferenceInv, relays, queue
  <2>9. DeliveryInv'
    BY <1>0, <2>1, <2>7 DEF DeliveryInv, NoLostRun, Live, relays, queue
  <2>10. WorkerInv'
    BY <1>0, <2>1, <2>2, <2>4, <2>5, <2>6 DEF WorkerInv, Finished
  <2>11. ResultInv'
    <3>1. \A j \in Keys : run'[j].input = run[j].input
      BY <2>4
    <3>2. KeyNamesOneExperiment' /\ CacheIsBehindTable'
      BY <1>0, <2>1, <2>2, <2>4, <3>1 DEF ResultInv, KeyNamesOneExperiment, CacheIsBehindTable
    <3>3. ResultIsOfQueuedInput'
      BY <1>0, <2>2, <2>4 DEF ResultInv, ResultIsOfQueuedInput, NoResult
    <3>4. \A j \in Keys : ~Known(j)' => run'[j] = NoRow
      BY <1>0, <2>2, <2>4, <2>7 DEF ResultInv, Known
    <3>. QED  BY <3>2, <3>3, <3>4 DEF ResultInv, NoRow, NoResult
  <2>. QED  BY <2>8, <2>9, <2>10, <2>11
<1>4. CASE CacheResult(w)
  <2>1. /\ UNCHANGED <<run, outbox, answered, relays, task, read, queue>>
        /\ pc[w] = "cache" /\ pc' = [pc EXCEPT ![w] = "reply"]
        /\ cache' \subseteq cache \cup {RunOf(w)}
    BY <1>4 DEF CacheResult, tables
  <2>2. run[RunOf(w)].status = "completed"
    BY <1>0, <2>1 DEF WorkerInv
  <2>3. ReferenceInv' /\ DeliveryInv' /\ WorkerInv'
    BY <1>0, <2>1, <2>2 DEF relays, queue, ReferenceInv, DeliveryInv, NoLostRun,
         Live, Known, RunOf, WorkerInv, Finished
  <2>4. ResultInv'
    BY <1>0, <2>1, <2>2 DEF ResultInv, Known, ResultIsOfQueuedInput,
         KeyNamesOneExperiment, CacheIsBehindTable
  <2>. QED  BY <2>3, <2>4
<1>5. CASE Ack(w) \/ GiveUp(w)
  <2>1. /\ UNCHANGED <<run, outbox, answered, relays, cache, dedup>>
        /\ pc' = [pc EXCEPT ![w] = "idle"]
        /\ \A v \in Workers \ {w} : task'[v] = task[v] /\ read'[v] = read[v]
    BY <1>0, <1>5 DEF Ack, GiveUp, tables, queue
  <2>2. \/ stream' = stream
        \/ /\ pc[w] = "reply" /\ task[w] \in Messages
           /\ stream' = [stream EXCEPT ![task[w]] = "gone"]
    BY <1>0, <1>5, MessageHasRun DEF Ack, MayAck, GiveUp, queue
  <2>3. \A k \in Keys : run[k].status = "queued" /\ Live(k) => Live(k)'
    <3>1. pc[w] = "reply" => run[RunOf(w)].status # "queued"
      BY <1>0 DEF WorkerInv, Finished
    <3>. QED  BY <1>0, <2>2, <3>1 DEF Live, Messages, RunOf
  <2>4. \A m \in Messages : stream'[m] # "new" => Known(m[1])
    <3>1. CASE stream' = stream
      BY <1>0, <3>1 DEF ReferenceInv
    <3>2. CASE /\ pc[w] = "reply" /\ task[w] \in Messages
               /\ stream' = [stream EXCEPT ![task[w]] = "gone"]
      <4>1. Known(task[w][1])
        BY <1>0, <3>2 DEF ReferenceInv, RunOf
      <4>2. \A m \in Messages : m # task[w] => stream'[m] = stream[m]
        BY <1>0, <3>2
      <4>. QED  BY <1>0, <4>1, <4>2 DEF ReferenceInv
    <3>. QED  BY <2>2, <3>1, <3>2
  <2>5. /\ pc'[w] = "idle"
        /\ \A v \in Workers \ {w} : pc'[v] = pc[v] /\ RunOf(v)' = RunOf(v)
    BY <1>0, <2>1 DEF RunOf
  <2>6. ReferenceInv'
    BY <1>0, <2>1, <2>4, <2>5 DEF ReferenceInv, Known, RunOf, relays
  <2>7. DeliveryInv'
    BY <1>0, <2>1, <2>3 DEF DeliveryInv, NoLostRun, relays
  <2>8. WorkerInv'
    BY <1>0, <2>1, <2>5 DEF WorkerInv
  <2>9. ResultInv'
    BY <1>0, <2>1 DEF ResultInv, Known, ResultIsOfQueuedInput, KeyNamesOneExperiment,
                      CacheIsBehindTable
  <2>. QED  BY <2>6, <2>7, <2>8, <2>9
<1>. QED  BY <1>1, <1>2, <1>3, <1>4, <1>5 DEF Work

\* Redelivery, the duplicate window and a restart lose no message.
LEMMA ExternalKeepsInv ==
    ASSUME PipelineInv, External
    PROVE  (ReferenceInv /\ DeliveryInv /\ WorkerInv /\ ResultInv)'
<1>0. /\ Typed /\ ReferenceInv /\ DeliveryInv /\ WorkerInv /\ ResultInv
      /\ stream \in [Messages -> MessageState] /\ dedup \subseteq Keys
      /\ relay \in Keys \cup {NoKey}
  BY TypedFacts DEF PipelineInv
<1>1. UNCHANGED <<run, outbox, answered, cache>>
  BY DEF External, Redeliver, ForgetId, Restart, tables
<1>2. ResultInv'
  BY <1>0, <1>1 DEF ResultInv, Known, ResultIsOfQueuedInput, KeyNamesOneExperiment,
                    CacheIsBehindTable
<1>3. ASSUME NEW m \in Messages, Redeliver(m)
      PROVE  ReferenceInv' /\ DeliveryInv' /\ WorkerInv'
  <2>1. \A k \in Keys : Live(k) => Live(k)'
    BY <1>0, <1>3 DEF Redeliver, Live, Messages
  <2>2. UNCHANGED <<relays, workers, dedup>>
        /\ \A n \in Messages : stream'[n] # "new" => stream[n] # "new"
    BY <1>0, <1>3 DEF Redeliver
  <2>3. ReferenceInv'
    BY <1>0, <1>1, <2>2 DEF relays, workers, ReferenceInv, Known, RunOf
  <2>4. DeliveryInv'
    BY <1>0, <1>1, <2>1, <2>2 DEF relays, DeliveryInv, NoLostRun
  <2>5. WorkerInv'
    BY <1>0, <1>1, <2>2 DEF workers, WorkerInv, RunOf
  <2>. QED  BY <2>3, <2>4, <2>5
<1>4. ASSUME NEW k \in Keys, ForgetId(k)
      PROVE  ReferenceInv' /\ DeliveryInv' /\ WorkerInv'
  <2>1. UNCHANGED <<relays, workers, stream>> /\ dedup' \subseteq dedup
    BY <1>4 DEF ForgetId
  <2>. QED  BY <1>0, <1>1, <2>1 DEF relays, workers, ReferenceInv, DeliveryInv,
              NoLostRun, Live, WorkerInv, Known, RunOf
<1>5. CASE Restart
  <2>1. /\ batch' = {} /\ relay' = NoKey /\ UNCHANGED queue
        /\ \A w \in Workers : pc'[w] = "idle"
    BY <1>5 DEF Restart
  <2>2. ReferenceInv'
    BY <1>0, <1>1, <2>1 DEF queue, ReferenceInv, Known
  <2>3. DeliveryInv'
    BY <1>0, <1>1, <2>1 DEF queue, DeliveryInv, NoLostRun, Live
  <2>4. WorkerInv'
    BY <2>1 DEF WorkerInv
  <2>. QED  BY <1>2, <2>2, <2>3, <2>4
<1>. QED  BY <1>2, <1>3, <1>4, <1>5 DEF External

\* Every step keeps the invariant.
LEMMA PipelineStep == ASSUME PipelineInv, [Next]_vars PROVE PipelineInv'
<1>1. Typed'
  BY TypedStep DEF PipelineInv
<1>2. CASE UNCHANGED vars
  BY <1>1, <1>2 DEF vars, tables, relays, workers, queue, PipelineInv, ReferenceInv,
        DeliveryInv, NoLostRun, Live, WorkerInv, ResultInv, ResultIsOfQueuedInput,
        KeyNamesOneExperiment, CacheIsBehindTable, Known, RunOf
<1>. QED  BY <1>1, <1>2, AcceptKeepsInv, ReplayKeepsInv, DispatchKeepsInv, WorkKeepsInv,
            ExternalKeepsInv DEF Next, Enqueue, PipelineInv

-----------------------------------------------------------------------------
(* What follows *)

\* Every reachable state satisfies the inductive invariant.
LEMMA PipelineInvariant == Spec => []PipelineInv
<1>. QED  BY PipelineInit, PipelineStep, PTL DEF Spec

\* No accepted run is lost, whatever crashes, expires or is delivered twice.
THEOREM NoRunIsLost == Spec => []NoLostRun
<1>1. PipelineInv => NoLostRun
  BY DEF PipelineInv, DeliveryInv
<1>. QED  BY <1>1, PipelineInvariant, PTL

\* A result is that of the stored experiment on the stored dataset, and the cache
\* holds nothing the table does not.
THEOREM ResultIsRight == Spec => []ResultsAreRight
<1>1. PipelineInv => ResultsAreRight
  BY DEF PipelineInv, ResultInv, ResultsAreRight
<1>. QED  BY <1>1, PipelineInvariant, PTL

\* An idempotency key stands for one experiment.
THEOREM OneExperimentPerKey == Spec => []KeyNamesOneExperiment
<1>1. PipelineInv => KeyNamesOneExperiment
  BY DEF PipelineInv, ResultInv
<1>. QED  BY <1>1, PipelineInvariant, PTL

\* What the workers hold makes a finished run untouchable.
LEMMA StepKeepsFinished ==
    ASSUME PipelineInv, [Next]_vars, NEW k \in Keys, run[k].status \in Finished
    PROVE  run'[k] = run[k] /\ finished'[k] = finished[k]
<1>0. run \in [Keys -> Row] /\ WorkerInv /\ TypeOK /\ finished \in [Keys -> Nat]
  BY TypedFacts DEF PipelineInv, TypeOK, TablesType
<1>1. CASE UNCHANGED <<run, finished>>
  BY <1>1
<1>2. ASSUME NEW j \in Keys, NEW x \in Inputs, Accept(j, x)
      PROVE  run'[k] = run[k] /\ finished'[k] = finished[k]
  BY <1>0, <1>2 DEF Accept, Finished
<1>3. ASSUME NEW w \in Workers, CommitRun(w)
      PROVE  run'[k] = run[k] /\ finished'[k] = finished[k]
  <2>1. run[RunOf(w)].status = "queued"
    BY <1>0, <1>3 DEF WorkerInv, CommitRun
  <2>2. RunOf(w) # k
    BY <2>1 DEF Finished
  <2>. QED  BY <1>0, <1>3, <2>2 DEF CommitRun
<1>4. CASE Dispatch \/ External \/ UNCHANGED vars
  <2>1. UNCHANGED <<run, finished>>
    BY <1>4 DEF Dispatch, RelayRead, RelayPublish, RelayMark, RelayAbandon,
          External, Redeliver, ForgetId, Restart, tables, vars
  <2>. QED  BY <2>1
<1>5. ASSUME NEW w \in Workers, Work(w)
      PROVE  CommitRun(w) \/ UNCHANGED <<run, finished>>
  BY <1>5 DEF Work, Fetch, LockRun, CacheResult, Ack, GiveUp, tables
<1>6. ASSUME NEW j \in Keys, NEW x \in Inputs, Replay(j, x)
      PROVE  UNCHANGED <<run, finished>>
  BY <1>6 DEF Replay
<1>. QED  BY <1>1, <1>2, <1>3, <1>4, <1>5, <1>6 DEF Next, Enqueue

\* A finished run stays as it is.
THEOREM FinishedRunStays == Spec => FinishedRunIsImmutable
<1>1. ASSUME PipelineInv, [Next]_vars
      PROVE  [\A k \in Keys : run[k].status \in Finished =>
                  run'[k] = run[k] /\ finished'[k] = finished[k]]_vars
  BY <1>1, StepKeepsFinished
<1>. QED  BY <1>1, PipelineInvariant, PTL DEF Spec, FinishedRunIsImmutable

-----------------------------------------------------------------------------
(* The pipeline implements ReplayPromise *)

\* A step that changes the table is one of the promise's steps.
LEMMA StepKeepsPromise ==
    ASSUME PipelineInv, [Next]_vars
    PROVE  [Promise!Next]_run
<1>0. run \in [Keys -> Row] /\ WorkerInv /\ TypeOK /\ version \in Versions
  BY TypedFacts DEF PipelineInv, TypeOK, HostType
<1>1. CASE UNCHANGED run
  BY <1>1
<1>2. ASSUME NEW k \in Keys, NEW x \in Inputs, Accept(k, x)
      PROVE  Promise!Accept(k)
  BY <1>0, <1>2 DEF Accept, Promise!Accept, NoResult, Promise!NoResult
<1>3. ASSUME NEW w \in Workers, CommitRun(w)
      PROVE  \E k \in Keys : Promise!Complete(k) \/ Promise!Fail(k)
  <2>1. /\ RunOf(w) \in Keys /\ run[RunOf(w)].status = "queued"
        /\ read[w] = run[RunOf(w)]
    BY <1>0, <1>3, MessageHasRun DEF WorkerInv, CommitRun
  <2>. QED  BY <1>3, <2>1 DEF CommitRun, SameDataset, Promise!Complete, Promise!Fail
<1>4. CASE Dispatch \/ External \/ UNCHANGED vars
  BY <1>4 DEF Dispatch, RelayRead, RelayPublish, RelayMark, RelayAbandon,
        External, Redeliver, ForgetId, Restart, tables, vars
<1>5. ASSUME NEW w \in Workers, Work(w)
      PROVE  CommitRun(w) \/ UNCHANGED run
  BY <1>5 DEF Work, Fetch, LockRun, CacheResult, Ack, GiveUp, tables
<1>6. ASSUME NEW k \in Keys, NEW x \in Inputs, Replay(k, x)
      PROVE  UNCHANGED run
  BY <1>6 DEF Replay
<1>. QED  BY <1>1, <1>2, <1>3, <1>4, <1>5, <1>6 DEF Next, Enqueue, Promise!Next

\* The pipeline keeps its promise to callers, for any number of duplicates,
\* redeliveries, crashes and dataset changes.
THEOREM PipelineKeepsPromise == Spec => KeepsReplayPromise
<1>1. Init => Promise!Init
  BY DEF Init, NoRow, NoResult, Promise!Init, Promise!NoResult
<1>. QED  BY <1>1, StepKeepsPromise, PipelineInvariant, PTL DEF Spec, KeepsReplayPromise, Promise!Spec
=============================================================================
