---------------------------- MODULE ReplayPipeline ----------------------------
(***************************************************************************)
(* Research replays: an HTTP caller enqueues a run under an idempotency    *)
(* key, the outbox relay publishes it to a work queue, and workers replay  *)
(* it (internal/platform/platform.go, schema.sql).                         *)
(*                                                                         *)
(* The database and the stream are durable; the process that holds the     *)
(* relay and the workers crashes and restarts, possibly with another       *)
(* dataset.  A database transaction, a publish, a mark, a fetch and an     *)
(* acknowledgement are one step each, and each may fail or succeed without *)
(* the process learning it.  The stream (JetStream) is external: it stores *)
(* a message once per message ID within its duplicate window, delivers at  *)
(* least once, and forgets what is acknowledged.                           *)
(***************************************************************************)
EXTENDS Naturals, FiniteSets

CONSTANTS
    Keys,        \* idempotency keys; a key names at most one run
    NoKey,       \* "no run", for a relay or a worker with nothing in hand
    Inputs,      \* experiments, normalised
    NoInput,
    Versions,    \* datasets the program may be built with, by hash
    NoVersion,
    Workers,     \* the goroutines sharing the durable consumer
    BatchLimit,  \* outbox rows the relay reads at once (20 in the code)
    MaxCopies,   \* bound: messages the stream ever stores for one run
    MaxRestarts  \* bound: crashes of the process

ASSUME ReplayAssumption ==
    /\ NoKey \notin Keys
    /\ NoInput \notin Inputs
    /\ NoVersion \notin Versions
    /\ IsFiniteSet(Workers)
    /\ BatchLimit \in Nat \ {0}
    /\ MaxCopies \in Nat \ {0}
    /\ MaxRestarts \in Nat

-----------------------------------------------------------------------------
Finished == {"completed", "failed"}

\* A row of runs.  The result column is what the replay was computed from.
Row == [status : {"none", "queued"} \cup Finished,
        input : Inputs \cup {NoInput}, hash : Versions \cup {NoVersion},
        result : (Inputs \cup {NoInput}) \X (Versions \cup {NoVersion})]

NoResult == <<NoInput, NoVersion>>

NoRow == [status |-> "none", input |-> NoInput, hash |-> NoVersion,
          result |-> NoResult]

Copies == 1..MaxCopies
Messages == Keys \X Copies
NoMessage == <<NoKey, 0>>

\* new: not published yet; stored: never delivered; held: delivered and not
\* acknowledged; due: to be delivered again; gone: acknowledged.
MessageState == {"new", "stored", "held", "due", "gone"}

-----------------------------------------------------------------------------
VARIABLES
    run,      \* the table runs
    born,     \* created_at, as the run's place in creation order; 0 before
    finished, \* finished_at, as the place of the run's last commit; 0 before
    outbox,   \* the table outbox: none, pending or published
    answered, \* history: the inputs Enqueue returned an ID for, by key
    batch,    \* what dispatch has read and not handled yet
    relay,    \* the run dispatch has published and not marked yet
    pc,       \* what each worker is doing
    task,     \* the message each worker holds
    read,     \* the row each worker has read under its lock
    cache,    \* runs whose result is in Redis
    stream,   \* the work queue: the state of every message
    dedup,    \* message IDs in the stream's duplicate window
    version,  \* the dataset of the running program
    restarts  \* history: crashes so far

tables  == <<run, born, finished, outbox, answered>>
relays  == <<batch, relay>>
workers == <<pc, task, read>>
queue   == <<stream, dedup>>
host    == <<version, restarts>>
vars    == <<tables, relays, workers, cache, queue, host>>

TablesType ==
    /\ run \in [Keys -> Row]
    /\ born \in [Keys -> Nat]
    /\ finished \in [Keys -> Nat]
    /\ outbox \in [Keys -> {"none", "pending", "published"}]
    /\ answered \in [Keys -> SUBSET Inputs]

RelayType ==
    /\ batch \subseteq Keys
    /\ relay \in Keys \cup {NoKey}

WorkersType ==
    /\ pc \in [Workers -> {"idle", "begin", "commit", "cache", "reply"}]
    /\ task \in [Workers -> Messages \cup {NoMessage}]
    /\ \A w \in Workers : pc[w] # "idle" => task[w] \in Messages
    /\ read \in [Workers -> Row]

QueueType ==
    /\ stream \in [Messages -> MessageState]
    /\ dedup \subseteq Keys
    /\ cache \subseteq Keys

HostType == version \in Versions /\ restarts \in Nat

TypeOK == TablesType /\ RelayType /\ WorkersType /\ QueueType /\ HostType

Init ==
    /\ run = [k \in Keys |-> NoRow]
    /\ born = [k \in Keys |-> 0]
    /\ finished = [k \in Keys |-> 0]
    /\ outbox = [k \in Keys |-> "none"]
    /\ answered = [k \in Keys |-> {}]
    /\ batch = {}
    /\ relay = NoKey
    /\ pc = [w \in Workers |-> "idle"]
    /\ task = [w \in Workers |-> NoMessage]
    /\ read = [w \in Workers |-> NoRow]
    /\ cache = {}
    /\ stream = [m \in Messages |-> "new"]
    /\ dedup = {}
    /\ version \in Versions
    /\ restarts = 0

-----------------------------------------------------------------------------
(* Enqueue *)

Existing == {k \in Keys : run[k].status # "none"}

\* One transaction inserts the run and its outbox row.  The caller may not
\* hear of it.
Accept(k, x) ==
    /\ run[k].status = "none"
    /\ run' = [run EXCEPT ![k] = [status |-> "queued", input |-> x,
                                  hash |-> version, result |-> NoResult]]
    /\ born' = [born EXCEPT ![k] = Cardinality(Existing) + 1]
    /\ outbox' = [outbox EXCEPT ![k] = "pending"]
    /\ \/ answered' = [answered EXCEPT ![k] = @ \cup {x}]
       \/ UNCHANGED answered
    /\ UNCHANGED <<finished, relays, workers, cache, queue, host>>

\* Not the code: any experiment under a known key gets the stored run.
AnyExperiment(k, x) == run[k].status # "none"

\* reflect.DeepEqual on the stored and the submitted experiment.
SameExperiment(k, x) == run[k].input = x

\* The key is taken: the same experiment gets the run's ID, another one
\* ErrIdempotencyConflict, and nothing is written.
Replay(k, x) ==
    /\ run[k].status # "none"
    /\ SameExperiment(k, x)
    /\ x \notin answered[k]
    /\ answered' = [answered EXCEPT ![k] = @ \cup {x}]
    /\ UNCHANGED <<run, born, finished, outbox, relays, workers, cache, queue, host>>

-----------------------------------------------------------------------------
(* The relay: Start's ticker and dispatch *)

Pending == {k \in Keys : outbox[k] = "pending"}
Older(j, k) == born[j] < born[k]

\* The oldest pending rows, at most BatchLimit of them.
Batches ==
    {S \in SUBSET Pending :
        /\ Cardinality(S) <= BatchLimit
        /\ \A j \in S, k \in Pending \ S : Older(j, k)
        /\ Cardinality(S) < BatchLimit => S = Pending}

RelayRead ==
    /\ batch = {}
    /\ Pending # {}
    /\ \E S \in Batches : batch' = S
    /\ UNCHANGED <<tables, relay, workers, cache, queue, host>>

\* Publish with the run's ID as message ID: within the duplicate window the
\* stream keeps one message.
RelayPublish ==
    /\ relay = NoKey
    /\ \E k \in batch :
         /\ \A j \in batch \ {k} : Older(k, j)
         /\ relay' = k
         /\ IF k \in dedup
            THEN UNCHANGED queue
            ELSE \E c \in Copies :
                   /\ stream[<<k, c>>] = "new"
                   /\ \A d \in Copies : d < c => stream[<<k, d>>] # "new"
                   /\ stream' = [stream EXCEPT ![<<k, c>>] = "stored"]
                   /\ dedup' = dedup \cup {k}
    /\ UNCHANGED <<tables, batch, workers, cache, host>>

\* UPDATE outbox SET published_at, once the publish is acknowledged.
RelayMark ==
    /\ relay # NoKey
    /\ outbox' = [outbox EXCEPT ![relay] = "published"]
    /\ batch' = batch \ {relay}
    /\ relay' = NoKey
    /\ UNCHANGED <<run, born, finished, answered, workers, cache, queue, host>>

\* Not the code: the row is marked although the publish failed.
RelayAbandonMarking ==
    /\ batch # {}
    /\ \E k \in batch : outbox' = [outbox EXCEPT ![k] = "published"]
    /\ batch' = {}
    /\ relay' = NoKey
    /\ UNCHANGED <<run, born, finished, answered, workers, cache, queue, host>>

\* dispatch returns on the first error: a publish that failed, timed out or was
\* stored without its acknowledgement arriving, or a failed update.
RelayAbandon ==
    /\ batch # {}
    /\ batch' = {}
    /\ relay' = NoKey
    /\ UNCHANGED <<tables, workers, cache, queue, host>>

-----------------------------------------------------------------------------
(* The workers: Start's pool and process *)

Unacknowledged == {m \in Messages : stream[m] \in {"held", "due"}}

\* Not the code: a redelivery needs a free slot although it holds one.
MayDeliverWithinLimit(m) ==
    /\ stream[m] \in {"due", "stored"}
    /\ Cardinality(Unacknowledged) < Cardinality(Workers)

\* MaxAckPending bounds first deliveries by the number of workers; a redelivery
\* is not bounded, its message is already pending.
MayDeliver(m) ==
    \/ stream[m] = "due"
    \/ stream[m] = "stored" /\ Cardinality(Unacknowledged) < Cardinality(Workers)

Fetch(w, m) ==
    /\ pc[w] = "idle"
    /\ MayDeliver(m)
    /\ stream' = [stream EXCEPT ![m] = "held"]
    /\ pc' = [pc EXCEPT ![w] = "begin"]
    /\ task' = [task EXCEPT ![w] = m]
    /\ UNCHANGED <<tables, relays, read, cache, dedup, host>>

RunOf(w) == task[w][1]

\* Not the code: SELECT without FOR UPDATE.
NeverLocked(w) == TRUE

\* SELECT ... FOR UPDATE waits while another transaction holds the row.
Unlocked(w) ==
    \A v \in Workers \ {w} : pc[v] = "commit" => RunOf(v) # RunOf(w)

\* Not the code: whatever the stream delivers is replayed.
AnyStatus(w) == TRUE

Unfinished(w) == run[RunOf(w)].status = "queued"

\* A finished run is acknowledged without further work.
LockRun(w) ==
    LET k == RunOf(w) IN
    /\ pc[w] = "begin"
    /\ Unlocked(w)
    /\ IF Unfinished(w)
       THEN /\ pc' = [pc EXCEPT ![w] = "commit"]
            /\ read' = [read EXCEPT ![w] = run[k]]
       ELSE /\ pc' = [pc EXCEPT ![w] = "reply"]
            /\ UNCHANGED read
    /\ UNCHANGED <<tables, relays, task, cache, queue, host>>

\* Not the code: the hash is not compared.
AnyDataset(w) == TRUE

\* The replay runs on the program's own dataset; a run queued for another one
\* fails.
SameDataset(w) == read[w].hash = version

CommitRun(w) ==
    LET k == RunOf(w) IN
    /\ pc[w] = "commit"
    /\ IF SameDataset(w)
       THEN /\ run' = [run EXCEPT ![k].status = "completed",
                                  ![k].result = <<read[w].input, version>>]
            /\ pc' = [pc EXCEPT ![w] = "cache"]
       ELSE /\ run' = [run EXCEPT ![k].status = "failed"]
            /\ pc' = [pc EXCEPT ![w] = "reply"]
    /\ finished' = [finished EXCEPT ![k] =
                       1 + Cardinality({j \in Keys : run[j].status \in Finished})]
    /\ read' = [read EXCEPT ![w] = NoRow]
    /\ UNCHANGED <<born, outbox, answered, relays, task, cache, queue, host>>

\* A failed cache write is only logged.
CacheResult(w) ==
    /\ pc[w] = "cache"
    /\ cache' \in {cache, cache \cup {RunOf(w)}}
    /\ pc' = [pc EXCEPT ![w] = "reply"]
    /\ UNCHANGED <<tables, relays, task, read, queue, host>>

\* Not the code: the message is acknowledged as soon as it is delivered.
MayAckEarly(w) == pc[w] # "idle"

\* When the worker acknowledges: after process returned nil.
MayAck(w) == pc[w] = "reply"

Ack(w) ==
    /\ MayAck(w)
    /\ stream' = [stream EXCEPT ![task[w]] = "gone"]
    /\ pc' = [pc EXCEPT ![w] = "idle"]
    /\ task' = [task EXCEPT ![w] = NoMessage]
    /\ read' = [read EXCEPT ![w] = NoRow]
    /\ UNCHANGED <<tables, relays, cache, dedup, host>>

\* Not the code: the worker goes on without the message it gave back.
GiveUpMessageOnly(w) ==
    /\ pc[w] # "idle"
    /\ task' = [task EXCEPT ![w] = NoMessage]
    /\ UNCHANGED <<tables, relays, pc, read, cache, queue, host>>

\* process fails or times out (the transaction rolls back and the message is
\* negatively acknowledged), a commit's result is lost, or the ack is.  The
\* message stays pending at the consumer.
GiveUp(w) ==
    /\ pc[w] # "idle"
    /\ pc' = [pc EXCEPT ![w] = "idle"]
    /\ task' = [task EXCEPT ![w] = NoMessage]
    /\ read' = [read EXCEPT ![w] = NoRow]
    /\ UNCHANGED <<tables, relays, cache, queue, host>>

-----------------------------------------------------------------------------
(* The stream and the host *)

\* AckWait or the delay of a negative acknowledgement is over; the worker that
\* held the message may still be at it.
Redeliver(m) ==
    /\ stream[m] = "held"
    /\ stream' = [stream EXCEPT ![m] = "due"]
    /\ UNCHANGED <<tables, relays, workers, cache, dedup, host>>

\* The duplicate window closes.  Bound: only while the stream may store more.
ForgetId(k) ==
    /\ k \in dedup
    /\ \E c \in Copies : stream[<<k, c>>] = "new"
    /\ dedup' = dedup \ {k}
    /\ UNCHANGED <<tables, relays, workers, cache, stream, host>>

\* The process dies, and a program with any of the datasets takes over.
Restart ==
    /\ restarts < MaxRestarts
    /\ restarts' = restarts + 1
    /\ version' \in Versions
    /\ batch' = {}
    /\ relay' = NoKey
    /\ pc' = [w \in Workers |-> "idle"]
    /\ task' = [w \in Workers |-> NoMessage]
    /\ read' = [w \in Workers |-> NoRow]
    /\ UNCHANGED <<tables, cache, queue>>

-----------------------------------------------------------------------------
Enqueue == \E k \in Keys, x \in Inputs : Accept(k, x) \/ Replay(k, x)

Dispatch == RelayRead \/ RelayPublish \/ RelayMark \/ RelayAbandon

Work(w) ==
    \/ \E m \in Messages : Fetch(w, m)
    \/ LockRun(w)
    \/ CommitRun(w)
    \/ CacheResult(w)
    \/ Ack(w)
    \/ GiveUp(w)

External ==
    \/ \E m \in Messages : Redeliver(m)
    \/ \E k \in Keys : ForgetId(k)
    \/ Restart

Next ==
    \/ Enqueue
    \/ Dispatch
    \/ \E w \in Workers : Work(w)
    \/ External

Spec == Init /\ [][Next]_vars

\* The relay's ticker and the workers' loops never stop, held messages come due,
\* and publishing, locking and committing do not fail for ever.
Fairness ==
    /\ WF_vars(RelayRead)
    /\ SF_vars(RelayPublish)
    /\ SF_vars(RelayMark)
    /\ \A m \in Messages : WF_vars(Redeliver(m))
    /\ \A m \in Messages : SF_vars(\E w \in Workers : Fetch(w, m))
    /\ \A w \in Workers :
         SF_vars(LockRun(w)) /\ SF_vars(CommitRun(w)) /\ SF_vars(Ack(w))
    /\ \A w \in Workers : WF_vars(CacheResult(w))

FairSpec == Spec /\ Fairness

-----------------------------------------------------------------------------
(* What must hold *)

\* A message of the run is in the stream.
Live(k) == \E c \in Copies : stream[<<k, c>>] \in {"stored", "held", "due"}

\* No accepted run is lost: while it is queued, its outbox row is unpublished or
\* the stream holds a message for it, through crashes of relay and workers,
\* lost acknowledgements and duplicate suppression.
NoLostRun ==
    \A k \in Keys : run[k].status = "queued" => outbox[k] = "pending" \/ Live(k)

\* A completed run's result was computed from the stored experiment on the
\* dataset the run was queued for, although programs with other datasets may
\* have worked on it; no other run has a result.
ResultIsOfQueuedInput ==
    \A k \in Keys :
        run[k].result = IF run[k].status = "completed"
                        THEN <<run[k].input, run[k].hash>>
                        ELSE NoResult

\* Every caller that got an ID for a key asked for the run's own experiment,
\* whoever won the race to insert it.
KeyNamesOneExperiment ==
    \A k \in Keys : answered[k] \subseteq {run[k].input}

\* Redis never holds a result that the database does not.
CacheIsBehindTable == \A k \in cache : run[k].status = "completed"

\* Both: a result that can be read anywhere is the run's own.
ResultsAreRight == ResultIsOfQueuedInput /\ CacheIsBehindTable

\* A finished run never changes and is not finished again, however often its
\* message is delivered, however many workers hold it and whatever dataset a
\* later program has.
FinishedRunIsImmutable ==
    [][\A k \in Keys :
          run[k].status \in Finished =>
              run'[k] = run[k] /\ finished'[k] = finished[k]]_vars

Promise == INSTANCE ReplayPromise

\* The pipeline implements what a caller may rely on: a key is bound once to an
\* experiment and a dataset, and has one outcome.
KeepsReplayPromise == Promise!Spec

\* Every accepted run finishes.
AcceptedRunFinishes ==
    \A k \in Keys : run[k].status = "queued" ~> run[k].status \in Finished

\* Every message is consumed: nothing of a finished run keeps a slot of the
\* consumer's ack-pending limit for ever.
QueueDrains == \A k \in Keys : Live(k) ~> ~Live(k)
=============================================================================
