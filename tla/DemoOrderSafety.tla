--------------------------- MODULE DemoOrderSafety ---------------------------
(***************************************************************************)
(* The safety argument for DemoOrder: an inductive invariant, and the      *)
(* properties that follow from it for any runs, handlers and crashes.      *)
(***************************************************************************)
EXTENDS DemoOrderProofs

-----------------------------------------------------------------------------
(* The inductive invariant *)

\* A process between its intent transaction and the end of its record step.
Submitting(p) == pc[p] \in {"post", "await", "record"}

\* The run has got past its intent transaction.
Started(r) == row[r].status \notin {"none", "ready", "hold"}

\* The submit_intent event and the status move together.
IntentInv ==
    \A r \in Runs : Started(r) <=> "submit_intent" \in trail[r]

\* At most one process ever submits a run, and it posts only in "post".
SubmitterInv ==
    /\ \A p, q \in Procs :
         Submitting(p) /\ Submitting(q) /\ job[p] = job[q] => p = q
    /\ \A p \in Procs : Submitting(p) =>
         /\ Started(job[p])
         /\ pc[p] = "post" => posts[job[p]] = 0 /\ row[job[p]].status \in Active
         /\ pc[p] # "post" => posts[job[p]] = 1

\* What the broker knows of a run comes from its single POST.
PostInv ==
    \A r \in Runs :
        /\ posts[r] \in {0, 1}
        /\ posts[r] = 1 => Started(r)
        /\ wire[r] # "none" => posts[r] = 1
        /\ book[r] # "none" => wire[r] = "accepted"
        /\ row[r].status \in {"filled", "rejected"} => posts[r] = 1

\* A reconciler writes a started status, and a final one only from an order.
ReconcilerInv ==
    \A p \in Procs :
        pc[p] = "apply" => /\ book[job[p]] # "none"
                           /\ copy[p].status \in Active \cup {"filled", "rejected"}

SubmissionInv == IntentInv /\ SubmitterInv /\ PostInv /\ ReconcilerInv /\ OneActive

\* The initial state satisfies the invariant.
LEMMA SubmissionInit == Init => SubmissionInv
BY DEF Init, SubmissionInv, IntentInv, SubmitterInv, PostInv, ReconcilerInv,
       OneActive, Started, Submitting, NoRow, Active

-----------------------------------------------------------------------------
(* Two kinds of step                                                         *)

\* A step of p that touches no table and no order, and takes p neither into a
\* submission nor to a lookup's write.
LEMMA QuietStep ==
    ASSUME SubmissionInv, NEW p \in Procs, UNCHANGED <<row, trail, broker>>,
           \A q \in Procs \ {p} :
               pc'[q] = pc[q] /\ job'[q] = job[q] /\ copy'[q] = copy[q],
           pc'[p] \notin {"post", "await", "record", "apply"}
    PROVE  SubmissionInv'
<1>1. IntentInv' /\ OneActive'
  BY DEF SubmissionInv, IntentInv, OneActive, Started
<1>2. SubmitterInv'
  BY DEF SubmissionInv, SubmitterInv, Submitting, Started, broker
<1>3. PostInv'
  BY DEF SubmissionInv, PostInv, Started, broker
<1>4. ReconcilerInv'
  BY DEF SubmissionInv, ReconcilerInv, broker
<1>. QED  BY <1>1, <1>2, <1>3, <1>4 DEF SubmissionInv

\* A step of p that writes an outcome for a run: an active row stays active or
\* becomes final, a final one only after its POST.
LEMMA OutcomeStep ==
    ASSUME SubmissionInv, NEW p \in Procs, NEW r \in Runs, UNCHANGED broker,
           \A s \in Runs \ {r} : row'[s] = row[s],
           \/ row'[r] = row[r]
           \/ /\ row[r].status \in Active
              /\ row'[r].status \in Active \cup {"filled", "rejected"},
           row'[r].status \in {"filled", "rejected"} => posts[r] = 1,
           \A s \in Runs : "submit_intent" \in trail'[s] <=> "submit_intent" \in trail[s],
           \A q \in Procs \ {p} :
               pc'[q] = pc[q] /\ job'[q] = job[q] /\ copy'[q] = copy[q],
           pc'[p] \notin {"post", "await", "record", "apply"},
           \A q \in Procs : Submitting(q) => job[q] \in Runs
    PROVE  SubmissionInv'
<1>1. \A s \in Runs : Started(s)' <=> Started(s)
  BY DEF Started, Active
<1>2. \A s \in Runs : row'[s].status \in Active => row[s].status \in Active
  BY DEF Active
<1>3. IntentInv'
  BY <1>1 DEF SubmissionInv, IntentInv
<1>4. OneActive'
  BY <1>2 DEF SubmissionInv, OneActive
<1>5. PostInv'
  BY <1>1 DEF SubmissionInv, PostInv, broker
<1>6. ReconcilerInv'
  BY DEF SubmissionInv, ReconcilerInv, broker
<1>7. SubmitterInv'
  <2>1. \A q \in Procs : Submitting(q)' =>
           Submitting(q) /\ pc'[q] = pc[q] /\ job'[q] = job[q] /\ job[q] \in Runs
    BY DEF Submitting
  <2>2. \A x, y \in Procs :
           Submitting(x)' /\ Submitting(y)' /\ job'[x] = job'[y] => x = y
    BY <2>1 DEF SubmissionInv, SubmitterInv
  <2>3. ASSUME NEW q \in Procs, Submitting(q)'
        PROVE  /\ Started(job[q])'
               /\ pc[q] = "post" => posts[job[q]] = 0 /\ row'[job[q]].status \in Active
               /\ pc[q] # "post" => posts[job[q]] = 1
    <3>1. Started(job[q])'
      BY <1>1, <2>1, <2>3 DEF SubmissionInv, SubmitterInv
    <3>2. ASSUME pc[q] = "post"
          PROVE  posts[job[q]] = 0 /\ row'[job[q]].status \in Active
      BY <2>1, <2>3, <3>2 DEF SubmissionInv, SubmitterInv
    <3>3. pc[q] # "post" => posts[job[q]] = 1
      BY <2>1, <2>3 DEF SubmissionInv, SubmitterInv
    <3>. QED  BY <3>1, <3>2, <3>3
  <2>. QED  BY <2>1, <2>2, <2>3 DEF SubmitterInv, broker
<1>. QED  BY <1>3, <1>4, <1>5, <1>6, <1>7 DEF SubmissionInv

\* A step of p that decides a run that has no intent yet.
LEMMA DecisionStep ==
    ASSUME SubmissionInv, NEW p \in Procs, NEW r \in Runs, UNCHANGED broker,
           \A s \in Runs \ {r} : row'[s] = row[s],
           \/ row'[r] = row[r]
           \/ /\ row[r].status \in {"none", "ready"}
              /\ row'[r].status \in {"ready", "hold"},
           \A s \in Runs : "submit_intent" \in trail'[s] <=> "submit_intent" \in trail[s],
           \A q \in Procs \ {p} :
               pc'[q] = pc[q] /\ job'[q] = job[q] /\ copy'[q] = copy[q],
           pc'[p] = "idle",
           \A q \in Procs : Submitting(q) => job[q] \in Runs
    PROVE  SubmissionInv'
<1>1. \A s \in Runs : Started(s)' <=> Started(s)
  BY DEF Started
<1>2. \A s \in Runs : Started(s) => row'[s] = row[s]
  BY DEF Started
<1>3. \A s \in Runs : row'[s].status \in Active => row'[s] = row[s]
  BY DEF Active
<1>4. \A s \in Runs : row'[s].status \in {"filled", "rejected"} => row'[s] = row[s]
  OBVIOUS
<1>5. IntentInv'
  BY <1>1 DEF SubmissionInv, IntentInv
<1>6. OneActive'
  BY <1>3 DEF SubmissionInv, OneActive
<1>7. PostInv'
  BY <1>1, <1>4 DEF SubmissionInv, PostInv, broker
<1>8. ReconcilerInv'
  BY DEF SubmissionInv, ReconcilerInv, broker
<1>9. SubmitterInv'
  <2>1. \A q \in Procs : Submitting(q)' =>
           Submitting(q) /\ pc'[q] = pc[q] /\ job'[q] = job[q] /\ job[q] \in Runs
    BY DEF Submitting
  <2>2. \A q \in Procs : Submitting(q)' => Started(job[q])' /\ row'[job[q]] = row[job[q]]
    BY <1>1, <1>2, <2>1 DEF SubmissionInv, SubmitterInv
  <2>. QED  BY <2>1, <2>2 DEF SubmissionInv, SubmitterInv, Started, broker
<1>. QED  BY <1>5, <1>6, <1>7, <1>8, <1>9 DEF SubmissionInv

\* Goto and Return move only the process they name.
LEMMA OnlyProcessMoves ==
    ASSUME ProcsType, NEW p \in Procs, NEW l, NEW r, NEW v, NEW c,
           Goto(p, l, r, v, c) \/ (Return(p) /\ l = "idle")
    PROVE  /\ pc'[p] = l
           /\ \A q \in Procs \ {p} :
                 pc'[q] = pc[q] /\ job'[q] = job[q] /\ copy'[q] = copy[q]
BY DEF ProcsType, Goto, Return

\* An event other than submit_intent leaves the intents alone.
LEMMA OtherEvent ==
    ASSUME trail \in [Runs -> SUBSET EventKind], NEW r \in Runs, NEW k,
           k # "submit_intent", AddEvent(r, k)
    PROVE  \A s \in Runs : "submit_intent" \in trail'[s] <=> "submit_intent" \in trail[s]
BY DEF AddEvent

-----------------------------------------------------------------------------
(* One step per action *)

\* A reconciliation step keeps the invariant.
LEMMA ReconcileKeepsSubmissionInv ==
    ASSUME TypeOK, SubmissionInv, NEW p \in Procs, Reconcile(p)
    PROVE  SubmissionInv'
<1>0. TablesType /\ ProcsType /\ BrokerType /\ HostType
  BY DEF TypeOK
<1>1. \A q \in Procs : Submitting(q) => job[q] \in Runs
  BY <1>0, BusyHasRun DEF Submitting
<1>2. ASSUME NEW r \in Runs, BeginReconcile(p, r) PROVE SubmissionInv'
  BY <1>0, <1>2, OnlyProcessMoves, QuietStep DEF BeginReconcile, tables
<1>3. ASSUME LookupAnswered(p) PROVE SubmissionInv'
  <2>1. PICK a \in Answers(job[p], copy[p].orderId) :
            IF SameOutcome(copy[p], Resolved(copy[p], a))
            THEN Return(p)
            ELSE Goto(p, "apply", job[p], "none", Resolved(copy[p], a))
    BY <1>3 DEF LookupAnswered
  <2>2. UNCHANGED <<row, trail, broker>>
    BY <1>3 DEF LookupAnswered, tables
  <2>3. CASE Return(p)
    BY <1>0, <2>2, <2>3, OnlyProcessMoves, QuietStep
  <2>4. CASE Goto(p, "apply", job[p], "none", Resolved(copy[p], a))
    <3>1. job[p] \in Runs
      BY <1>0, <1>3, BusyHasRun DEF LookupAnswered
    <3>2. /\ book[job[p]] # "none"
          /\ Resolved(copy[p], a).status \in
               {"accepted", "unknown", "partially_filled", "filled", "rejected"}
      BY <1>0, <3>1, ResolvedType DEF ProcsType, BrokerType
    <3>3. /\ pc'[p] = "apply" /\ job'[p] = job[p]
          /\ copy'[p] = Resolved(copy[p], a)
      BY <1>0, <2>4 DEF Goto, ProcsType
    <3>4. \A q \in Procs \ {p} :
             pc'[q] = pc[q] /\ job'[q] = job[q] /\ copy'[q] = copy[q]
      BY <1>0, <2>4, OnlyProcessMoves
    <3>5. IntentInv' /\ OneActive'
      BY <2>2 DEF SubmissionInv, IntentInv, OneActive, Started
    <3>6. SubmitterInv'
      BY <2>2, <3>3, <3>4 DEF SubmissionInv, SubmitterInv, Submitting, Started, broker
    <3>7. PostInv'
      BY <2>2 DEF SubmissionInv, PostInv, Started, broker
    <3>8. ReconcilerInv'
      BY <2>2, <3>2, <3>3, <3>4 DEF SubmissionInv, ReconcilerInv, Active, broker
    <3>. QED  BY <3>5, <3>6, <3>7, <3>8 DEF SubmissionInv
  <2>. QED  BY <2>1, <2>3, <2>4
<1>4. ASSUME LookupFailed(p) PROVE SubmissionInv'
  <2>1. CASE Return(p)
    BY <1>0, <1>4, <2>1, OnlyProcessMoves, QuietStep DEF LookupFailed, tables
  <2>2. CASE Goto(p, "mark", job[p], "none", NoRow)
    BY <1>0, <1>4, <2>2, OnlyProcessMoves, QuietStep DEF LookupFailed, tables
  <2>. QED  BY <1>4, <2>1, <2>2 DEF LookupFailed
<1>5. ASSUME ApplyLookup(p) PROVE SubmissionInv'
  <2>1. job[p] \in Runs /\ pc[p] = "apply"
    BY <1>0, <1>5, BusyHasRun DEF ApplyLookup
  <2>2. /\ posts[job[p]] = 1
        /\ copy[p].status \in Active \cup {"filled", "rejected"}
    BY <2>1 DEF SubmissionInv, ReconcilerInv, PostInv
  <2>3. \/ row'[job[p]] = row[job[p]]
        \/ row[job[p]].status \in Active /\ row'[job[p]] = copy[p]
    BY <1>0, <1>5, <2>1 DEF ApplyLookup, LookupWhere, TablesType
  <2>4. \A s \in Runs \ {job[p]} : row'[s] = row[s]
    BY <1>0, <1>5 DEF ApplyLookup, TablesType
  <2>5. \A s \in Runs : "submit_intent" \in trail'[s] <=> "submit_intent" \in trail[s]
    BY <1>0, <1>5, <2>1, OtherEvent DEF ApplyLookup, TablesType
  <2>. QED  BY <1>0, <1>1, <1>5, <2>1, <2>2, <2>3, <2>4, <2>5,
               OnlyProcessMoves, OutcomeStep DEF ApplyLookup
<1>6. ASSUME MarkUnknown(p) PROVE SubmissionInv'
  <2>1. job[p] \in Runs
    BY <1>0, <1>6, BusyHasRun DEF MarkUnknown
  <2>2. /\ \/ row'[job[p]] = row[job[p]]
           \/ /\ row[job[p]].status \in Active
              /\ row'[job[p]].status = "unknown"
        /\ \A s \in Runs \ {job[p]} : row'[s] = row[s]
    BY <1>0, <1>6, <2>1 DEF MarkUnknown, MarkWhere, SetStatus, TablesType, Row, Active
  <2>3. row'[job[p]].status \in {"filled", "rejected"} => posts[job[p]] = 1
    BY <2>1, <2>2 DEF SubmissionInv, PostInv
  <2>4. \A s \in Runs : "submit_intent" \in trail'[s] <=> "submit_intent" \in trail[s]
    BY <1>0, <1>6, <2>1, OtherEvent DEF MarkUnknown, TablesType
  <2>. QED  BY <1>0, <1>1, <1>6, <2>1, <2>2, <2>3, <2>4,
               OnlyProcessMoves, OutcomeStep DEF MarkUnknown, Active
<1>7. ASSUME Abandon(p) PROVE SubmissionInv'
  BY <1>0, <1>7, OnlyProcessMoves, QuietStep DEF Abandon, tables
<1>. QED  BY <1>2, <1>3, <1>4, <1>5, <1>6, <1>7 DEF Reconcile

\* A handler step keeps the invariant.
LEMMA HandleKeepsSubmissionInv ==
    ASSUME TypeOK, SubmissionInv, NEW h \in Handlers, Handle(h)
    PROVE  SubmissionInv'
<1>0. TablesType /\ ProcsType /\ BrokerType /\ HostType /\ h \in Procs
  BY DEF TypeOK, Procs
<1>1. \A q \in Procs : Submitting(q) => job[q] \in Runs
  BY <1>0, BusyHasRun DEF Submitting
<1>2. ASSUME NEW r \in Runs, PreviewEvaluate(h, r) PROVE SubmissionInv'
  BY <1>0, <1>2, OnlyProcessMoves, QuietStep DEF PreviewEvaluate, tables
<1>3. ASSUME NEW r \in Runs, ExecuteRead(h, r) PROVE SubmissionInv'
  BY <1>0, <1>3, OnlyProcessMoves, QuietStep DEF ExecuteRead, tables
<1>4. ASSUME PreviewInsert(h) PROVE SubmissionInv'
  <2>1. job[h] \in Runs
    BY <1>0, <1>4, BusyHasRun DEF PreviewInsert
  <2>2. /\ \/ row'[job[h]] = row[job[h]]
           \/ /\ row[job[h]].status = "none"
              /\ row'[job[h]].status \in {"ready", "hold"}
        /\ \A s \in Runs \ {job[h]} : row'[s] = row[s]
    BY <1>0, <1>4, <2>1 DEF PreviewInsert, SetStatus, TablesType, Row
  <2>3. \A s \in Runs : "submit_intent" \in trail'[s] <=> "submit_intent" \in trail[s]
    BY <1>0, <1>4, <2>1, OtherEvent DEF PreviewInsert, TablesType
  <2>. QED  BY <1>0, <1>1, <1>4, <2>1, <2>2, <2>3,
               OnlyProcessMoves, DecisionStep DEF PreviewInsert
<1>5. ASSUME ExecuteEvaluate(h) PROVE SubmissionInv'
  BY <1>0, <1>5, OnlyProcessMoves, QuietStep DEF ExecuteEvaluate, tables
<1>6. ASSUME HoldRun(h) PROVE SubmissionInv'
  <2>1. job[h] \in Runs
    BY <1>0, <1>6, BusyHasRun DEF HoldRun
  <2>2. /\ \/ row'[job[h]] = row[job[h]]
           \/ /\ row[job[h]].status = "ready"
              /\ row'[job[h]].status = "hold"
        /\ \A s \in Runs \ {job[h]} : row'[s] = row[s]
    BY <1>0, <1>6, <2>1 DEF HoldRun, HoldWhere, SetStatus, TablesType, Row
  <2>3. \A s \in Runs : "submit_intent" \in trail'[s] <=> "submit_intent" \in trail[s]
    BY <1>0, <1>6, <2>1, OtherEvent DEF HoldRun, TablesType
  <2>. QED  BY <1>0, <1>1, <1>6, <2>1, <2>2, <2>3,
               OnlyProcessMoves, DecisionStep DEF HoldRun
<1>7. ASSUME SubmitIntent(h) PROVE SubmissionInv'
  <2>1. job[h] \in Runs /\ ~Started(job[h]) /\ ~Submitting(h)
    BY <1>0, <1>7, BusyHasRun DEF SubmitIntent, MaySubmit, Started, Submitting
  <2>2. /\ row'[job[h]].status = "submitting"
        /\ \A s \in Runs \ {job[h]} : row'[s] = row[s] /\ row[s].status \notin Active
    BY <1>0, <1>7, <2>1 DEF SubmitIntent, SetStatus, MaySubmit, IndexAdmits,
                            TablesType, Row
  <2>3. /\ "submit_intent" \in trail'[job[h]]
        /\ \A s \in Runs \ {job[h]} : trail'[s] = trail[s]
    BY <1>0, <1>7, <2>1 DEF SubmitIntent, AddEvent, TablesType
  <2>4. /\ pc'[h] = "post" /\ job'[h] = job[h]
        /\ \A q \in Procs \ {h} :
              pc'[q] = pc[q] /\ job'[q] = job[q] /\ copy'[q] = copy[q]
    BY <1>0, <1>7, OnlyProcessMoves DEF SubmitIntent, Goto, ProcsType
  <2>5. UNCHANGED broker /\ posts[job[h]] = 0
    BY <1>7, <2>1 DEF SubmitIntent, SubmissionInv, PostInv
  <2>6. IntentInv'
    BY <2>1, <2>2, <2>3 DEF SubmissionInv, IntentInv, Started
  <2>7. OneActive'
    BY <2>1, <2>2 DEF OneActive
  <2>8. PostInv'
    BY <2>1, <2>2, <2>5 DEF SubmissionInv, PostInv, Started, broker
  <2>9. ReconcilerInv'
    BY <2>4, <2>5 DEF SubmissionInv, ReconcilerInv, broker
  <2>10. SubmitterInv'
    <3>1. \A q \in Procs \ {h} : Submitting(q) => job[q] # job[h] /\ job[q] \in Runs
      BY <1>1, <2>1 DEF SubmissionInv, SubmitterInv
    <3>2. \A q \in Procs \ {h} : Submitting(q)' => Submitting(q)
      BY <2>4 DEF Submitting
    <3>. QED  BY <1>0, <2>1, <2>2, <2>4, <2>5, <3>1, <3>2
                DEF SubmissionInv, SubmitterInv, Started, Active, broker
  <2>. QED  BY <2>6, <2>7, <2>8, <2>9, <2>10 DEF SubmissionInv
<1>8. ASSUME SubmitRefused(h) PROVE SubmissionInv'
  BY <1>0, <1>8, OnlyProcessMoves, QuietStep DEF SubmitRefused, tables
<1>9. ASSUME Post(h) PROVE SubmissionInv'
  <2>1. /\ job[h] \in Runs /\ pc[h] = "post" /\ Submitting(h)
        /\ UNCHANGED <<row, trail, book>>
    BY <1>0, <1>9, BusyHasRun DEF Post, Submitting, tables
  <2>2. /\ pc'[h] = "await" /\ job'[h] = job[h]
        /\ \A q \in Procs \ {h} :
              pc'[q] = pc[q] /\ job'[q] = job[q] /\ copy'[q] = copy[q]
    BY <1>0, <1>9, OnlyProcessMoves DEF Post, Goto, ProcsType
  <2>3. posts[job[h]] = 0 /\ Started(job[h]) /\ book[job[h]] = "none"
    BY <1>0, <2>1 DEF SubmissionInv, SubmitterInv, PostInv
  <2>4. /\ posts'[job[h]] = 1 /\ wire'[job[h]] = "sent"
        /\ \A s \in Runs \ {job[h]} : posts'[s] = posts[s] /\ wire'[s] = wire[s]
    BY <1>0, <1>9, <2>1, <2>3 DEF Post, BrokerType
  <2>5. IntentInv' /\ OneActive'
    BY <2>1 DEF SubmissionInv, IntentInv, OneActive, Started
  <2>6. PostInv'
    BY <2>1, <2>3, <2>4 DEF SubmissionInv, PostInv, Started
  <2>7. ReconcilerInv'
    BY <2>1, <2>2 DEF SubmissionInv, ReconcilerInv
  <2>8. SubmitterInv'
    <3>1. \A q \in Procs \ {h} : Submitting(q) => job[q] # job[h] /\ job[q] \in Runs
      BY <1>0, <1>1, <2>1 DEF SubmissionInv, SubmitterInv
    <3>2. \A q \in Procs : Submitting(q)' <=> Submitting(q)
      BY <2>1, <2>2 DEF Submitting
    <3>. QED  BY <1>0, <2>1, <2>2, <2>3, <2>4, <3>1, <3>2
                DEF SubmissionInv, SubmitterInv, Started
  <2>. QED  BY <2>5, <2>6, <2>7, <2>8 DEF SubmissionInv
<1>10. ASSUME ReceiveOutcome(h) PROVE SubmissionInv'
  <2>1. UNCHANGED <<row, trail, broker>> /\ pc[h] = "await"
    BY <1>10 DEF ReceiveOutcome, tables
  <2>2. /\ pc'[h] = "record" /\ job'[h] = job[h]
        /\ \A q \in Procs \ {h} :
              pc'[q] = pc[q] /\ job'[q] = job[q] /\ copy'[q] = copy[q]
    BY <1>0, <1>10 DEF ReceiveOutcome, Goto, ProcsType
  <2>3. IntentInv' /\ OneActive' /\ PostInv'
    BY <2>1 DEF SubmissionInv, IntentInv, OneActive, PostInv, Started, broker
  <2>4. ReconcilerInv'
    BY <2>1, <2>2 DEF SubmissionInv, ReconcilerInv, broker
  <2>5. SubmitterInv'
    BY <2>1, <2>2 DEF SubmissionInv, SubmitterInv, Submitting, Started, broker
  <2>. QED  BY <2>3, <2>4, <2>5 DEF SubmissionInv
<1>11. ASSUME RecordSubmit(h) PROVE SubmissionInv'
  <2>1. job[h] \in Runs /\ verdict[h] \in Outcome /\ pc[h] = "record"
    BY <1>0, <1>11, BusyHasRun DEF RecordSubmit, ProcsType
  <2>2. posts[job[h]] = 1
    BY <1>0, <2>1 DEF SubmissionInv, SubmitterInv, Submitting
  <2>3. /\ \/ row'[job[h]] = row[job[h]]
           \/ /\ row[job[h]].status \in Active
              /\ row'[job[h]].status \in Active \cup {"filled", "rejected"}
        /\ \A s \in Runs \ {job[h]} : row'[s] = row[s]
    BY <1>0, <1>11, <2>1 DEF RecordSubmit, RecordWhere, TablesType, Row, Active, Outcome
  <2>4. \A s \in Runs : "submit_intent" \in trail'[s] <=> "submit_intent" \in trail[s]
    BY <1>0, <1>11, <2>1, OtherEvent DEF RecordSubmit, SubmissionEvent, TablesType
  <2>5. /\ pc'[h] \in {"reread", "idle"}
        /\ \A q \in Procs \ {h} :
              pc'[q] = pc[q] /\ job'[q] = job[q] /\ copy'[q] = copy[q]
    BY <1>0, <1>11, OnlyProcessMoves DEF RecordSubmit
  <2>. QED  BY <1>0, <1>1, <1>11, <2>1, <2>2, <2>3, <2>4, <2>5, OutcomeStep
              DEF RecordSubmit
<1>12. ASSUME InlineReconcile(h) PROVE SubmissionInv'
  <2>1. CASE Return(h)
    BY <1>0, <1>12, <2>1, OnlyProcessMoves, QuietStep DEF InlineReconcile, tables
  <2>2. CASE Goto(h, "lookup", job[h], "none", row[job[h]])
    BY <1>0, <1>12, <2>2, OnlyProcessMoves, QuietStep DEF InlineReconcile, tables
  <2>. QED  BY <1>12, <2>1, <2>2 DEF InlineReconcile
<1>. QED  BY <1>2, <1>3, <1>4, <1>5, <1>6, <1>7, <1>8, <1>9, <1>10, <1>11, <1>12
         DEF Handle

\* A crash forgets every process; time, the sync and the broker's progress
\* touch neither rows nor processes.
LEMMA EnvironmentKeepsSubmissionInv ==
    ASSUME TypeOK, SubmissionInv, Environment
    PROVE  SubmissionInv'
<1>0. TablesType /\ ProcsType /\ BrokerType /\ HostType
  BY DEF TypeOK
<1>1. CASE Crash
  <2>1. \A p \in Procs : pc'[p] = "idle"
    BY <1>1 DEF Crash
  <2>2. UNCHANGED <<row, trail, broker>>
    BY <1>1 DEF Crash, tables
  <2>3. IntentInv' /\ OneActive' /\ PostInv'
    BY <2>2 DEF SubmissionInv, IntentInv, OneActive, PostInv, Started, broker
  <2>4. SubmitterInv' /\ ReconcilerInv'
    BY <2>1 DEF SubmitterInv, ReconcilerInv, Submitting
  <2>. QED  BY <2>3, <2>4 DEF SubmissionInv
<1>2. ASSUME UNCHANGED <<row, trail, procs, posts>>, PostInv',
             \A r \in Runs : book[r] # "none" => book'[r] # "none"
      PROVE  SubmissionInv'
  <2>1. IntentInv' /\ OneActive'
    BY <1>2 DEF SubmissionInv, IntentInv, OneActive, Started
  <2>2. SubmitterInv'
    BY <1>2 DEF SubmissionInv, SubmitterInv, Submitting, Started, procs
  <2>3. ReconcilerInv'
    BY <1>0, <1>2, BusyHasRun DEF SubmissionInv, ReconcilerInv, procs
  <2>. QED  BY <1>2, <2>1, <2>2, <2>3 DEF SubmissionInv
<1>3. CASE Bind \/ \E r \in Runs : Expire(r) \/ Age(r) \/ ClosePosition(r)
  <2>1. UNCHANGED <<row, trail, procs, wire, book, posts>>
    BY <1>3 DEF Bind, Expire, Age, ClosePosition, tables, broker
  <2>2. PostInv'
    BY <2>1 DEF SubmissionInv, PostInv, Started
  <2>. QED  BY <1>2, <2>1, <2>2
<1>4. ASSUME NEW r \in Runs, BrokerReceives(r) PROVE SubmissionInv'
  <2>1. UNCHANGED <<row, trail, procs, posts>>
    BY <1>4 DEF BrokerReceives, tables
  <2>2. /\ wire[r] = "sent" /\ wire'[r] # "none"
        /\ book'[r] # "none" => wire'[r] = "accepted" \/ book[r] # "none"
        /\ book[r] # "none" => book'[r] # "none"
        /\ \A s \in Runs \ {r} : wire'[s] = wire[s] /\ book'[s] = book[s]
    BY <1>0, <1>4 DEF BrokerReceives, BrokerType
  <2>3. PostInv'
    BY <2>1, <2>2 DEF SubmissionInv, PostInv, Started
  <2>. QED  BY <1>2, <2>1, <2>2, <2>3
<1>5. ASSUME NEW r \in Runs, BrokerProgress(r) PROVE SubmissionInv'
  <2>1. UNCHANGED <<row, trail, procs, posts, wire>>
    BY <1>5 DEF BrokerProgress, tables
  <2>2. book[r] # "none" /\ book' \in [Runs -> Class \cup {"none"}]
        /\ book'[r] # "none" /\ \A s \in Runs \ {r} : book'[s] = book[s]
    BY <1>0, <1>5, ConstantsAssumption DEF BrokerProgress, BrokerType, Class
  <2>3. PostInv'
    BY <2>1, <2>2 DEF SubmissionInv, PostInv, Started
  <2>. QED  BY <1>2, <2>1, <2>2, <2>3
<1>. QED  BY <1>1, <1>3, <1>4, <1>5 DEF Environment

\* Every reachable state satisfies the inductive invariant.
THEOREM SubmissionInvariant == Spec => []SubmissionInv
<1>1. TypeOK /\ SubmissionInv /\ [Next]_vars => SubmissionInv'
  <2>1. ASSUME SubmissionInv, UNCHANGED vars PROVE SubmissionInv'
    BY <2>1 DEF vars, tables, procs, broker, SubmissionInv, IntentInv,
       SubmitterInv, PostInv, ReconcilerInv, OneActive, Started, Submitting
  <2>. QED  BY <2>1, ReconcileKeepsSubmissionInv, HandleKeepsSubmissionInv,
               EnvironmentKeepsSubmissionInv DEF Next
<1>. QED  BY <1>1, SubmissionInit, TypeCorrect, PTL DEF Spec

-----------------------------------------------------------------------------
(* What follows                                                              *)

\* At most one run is unresolved, whatever handlers and sweeper do: the unique
\* index guards the only way in, and no later update leaves by another status.
THEOREM OneActiveRun == Spec => []OneActive
<1>1. SubmissionInv => OneActive
  BY DEF SubmissionInv
<1>. QED  BY <1>1, SubmissionInvariant, PTL

\* An order is posted at most once, and only behind its durable intent; a run on
\* hold carries none.
THEOREM OrderPostedOnce == Spec => []PostedOnceAfterIntent
<1>1. SubmissionInv => PostedOnceAfterIntent
  BY DEF SubmissionInv, PostInv, IntentInv, PostedOnceAfterIntent, Started
<1>. QED  BY <1>1, SubmissionInvariant, PTL

\* Held, filled and rejected rows never change: each update's WHERE clause
\* leaves them out, so an answer that arrives late is dropped.
THEOREM FinalRowImmutable == Spec => FinalRowIsImmutable
<1>1. ASSUME TypeOK, [Next]_vars, NEW r \in Runs, row[r].status \in Terminal
      PROVE  row'[r] = row[r]
  <2>0. TablesType /\ ProcsType
    BY <1>1 DEF TypeOK
  <2> USE <1>1, <2>0 DEF TablesType, Terminal, Active
  <2>1. ASSUME NEW p \in Procs, Reconcile(p) PROVE row'[r] = row[r]
    BY <2>1 DEF Reconcile, BeginReconcile, LookupAnswered, LookupFailed, ApplyLookup,
       MarkUnknown, Abandon, LookupWhere, MarkWhere, SetStatus, tables
  <2>2. ASSUME NEW h \in Handlers, Handle(h) PROVE row'[r] = row[r]
    BY <2>2 DEF Handle, PreviewEvaluate, PreviewInsert, ExecuteRead, ExecuteEvaluate,
       HoldRun, SubmitIntent, SubmitRefused, Post, ReceiveOutcome, RecordSubmit,
       InlineReconcile, HoldWhere, MaySubmit, RecordWhere, SetStatus, tables
  <2>3. CASE Environment
    BY <2>3 DEF Environment, Crash, Bind, Expire, Age, BrokerReceives,
       BrokerProgress, ClosePosition, tables
  <2>4. CASE UNCHANGED vars
    BY <2>4 DEF vars, tables
  <2>. QED  BY <2>1, <2>2, <2>3, <2>4 DEF Next
<1>2. TypeOK /\ [Next]_vars =>
        [\A r \in Runs : row[r].status \in Terminal => row'[r] = row[r]]_vars
  BY <1>1
<1>. QED  BY <1>2, TypeCorrect, PTL DEF Spec, FinalRowIsImmutable

-----------------------------------------------------------------------------
(* What a final status says of the broker, when lookups answer about the     *)
(* run's own order.                                                          *)

\* A final status s of r is what happened at the broker.
TrueOf(r, s) ==
    /\ s = "filled" => book[r] = "filled" /\ r \in execs
    /\ s = "rejected" =>
          wire[r] = "refused" \/ (book[r] = "rejected" /\ r \notin execs)

\* Rows are true, and so is what a process is about to write.
TruthInv ==
    /\ \A r \in Runs : TrueOf(r, row[r].status)
    /\ \A p \in Procs :
         /\ pc[p] = "apply" => TrueOf(job[p], copy[p].status)
         /\ pc[p] = "record" /\ verdict[p] = "rejected" => wire[job[p]] = "refused"

\* What is true of the broker stays so: an order is posted before it is received,
\* received once, and does not move on from a rejection or away from a fill.
LEMMA TruthIsStable ==
    ASSUME TypeOK, SubmissionInv, [Next]_vars, NEW r \in Runs
    PROVE  /\ wire[r] = "refused" => wire'[r] = "refused"
           /\ \A s : TrueOf(r, s) => TrueOf(r, s)'
<1>0. TablesType /\ ProcsType /\ BrokerType
  BY DEF TypeOK
<1>1. CASE UNCHANGED <<wire, book, execs>>
  BY <1>1 DEF TrueOf
<1>2. ASSUME NEW h \in Handlers, Post(h)
      PROVE  /\ wire[r] = "refused" => wire'[r] = "refused"
             /\ UNCHANGED <<book, execs>>
  <2>1. h \in Procs /\ job[h] \in Runs /\ Submitting(h)
    BY <1>0, <1>2, BusyHasRun DEF Post, Procs, Submitting
  <2>2. wire[job[h]] = "none"
    BY <1>0, <1>2, <2>1 DEF Post, SubmissionInv, SubmitterInv, PostInv
  <2>. QED  BY <1>0, <1>2, <2>1, <2>2 DEF Post, BrokerType
<1>3. ASSUME NEW q \in Runs, BrokerReceives(q)
      PROVE  /\ wire[r] = "refused" => wire'[r] = "refused"
             /\ book[r] # "none" => book'[r] = book[r]
             /\ UNCHANGED execs
  <2>1. wire[q] = "sent" /\ book[q] = "none"
    BY <1>3 DEF BrokerReceives, SubmissionInv, PostInv
  <2>. QED  BY <1>0, <1>3, <2>1 DEF BrokerReceives, BrokerType
<1>4. ASSUME NEW q \in Runs, BrokerProgress(q)
      PROVE  /\ UNCHANGED wire
             /\ book[r] \in {"filled", "rejected"} => book'[r] = book[r]
             /\ r \in execs => r \in execs'
             /\ book[r] = "rejected" => (r \in execs' => r \in execs)
  BY <1>0, <1>4 DEF BrokerProgress, BrokerType
<1>5. \/ UNCHANGED <<wire, book, execs>>
      \/ \E h \in Handlers : Post(h)
      \/ \E q \in Runs : BrokerReceives(q) \/ BrokerProgress(q)
  <2>1. ASSUME NEW p \in Procs, Reconcile(p) PROVE UNCHANGED <<wire, book, execs>>
    BY <2>1 DEF Reconcile, BeginReconcile, LookupAnswered, LookupFailed, ApplyLookup,
       MarkUnknown, Abandon, broker
  <2>2. ASSUME NEW h \in Handlers, Handle(h)
        PROVE  Post(h) \/ UNCHANGED <<wire, book, execs>>
    BY <2>2 DEF Handle, PreviewEvaluate, PreviewInsert, ExecuteRead, ExecuteEvaluate,
       HoldRun, SubmitIntent, SubmitRefused, ReceiveOutcome, RecordSubmit,
       InlineReconcile, broker
  <2>3. CASE Environment
    BY <2>3 DEF Environment, Crash, Bind, Expire, Age, ClosePosition, broker
  <2>4. CASE UNCHANGED vars
    BY <2>4 DEF vars, broker
  <2>. QED  BY <2>1, <2>2, <2>3, <2>4 DEF Next
<1>. QED  BY <1>1, <1>2, <1>3, <1>4, <1>5 DEF TrueOf

\* A step of p that gives rows a status that is no end, or a true one.
LEMMA TruthWrite ==
    ASSUME TypeOK, SubmissionInv, TruthInv, [Next]_vars, NEW p,
           \A r \in Runs : \/ row'[r] = row[r]
                           \/ row'[r].status \notin {"filled", "rejected"}
                           \/ TrueOf(r, row'[r].status),
           \A q \in Procs \ {p} : /\ pc'[q] = pc[q] /\ job'[q] = job[q]
                                  /\ copy'[q] = copy[q] /\ verdict'[q] = verdict[q],
           pc'[p] \notin {"record", "apply"}
    PROVE  TruthInv'
<1>1. \A q \in Procs \ {p} : pc'[q] # "idle" => job'[q] \in Runs
  BY BusyHasRun DEF TypeOK
<1>2. \A r \in Runs : TrueOf(r, row[r].status)'
  <2> SUFFICES ASSUME NEW r \in Runs PROVE TrueOf(r, row[r].status)'
    OBVIOUS
  <2>1. CASE row'[r] = row[r] \/ TrueOf(r, row'[r].status)
    BY <2>1, TruthIsStable DEF TruthInv, TrueOf
  <2>2. CASE row'[r].status \notin {"filled", "rejected"}
    BY <2>2 DEF TrueOf
  <2>. QED  BY <2>1, <2>2
<1>. QED  BY <1>1, <1>2, TruthIsStable DEF TruthInv

\* Goto and Return leave the locals of the others alone.
LEMMA OthersKeepLocals ==
    ASSUME ProcsType, NEW p \in Procs, NEW l, NEW r, NEW v, NEW c,
           Goto(p, l, r, v, c) \/ (Return(p) /\ l = "idle")
    PROVE  /\ pc'[p] = l
           /\ \A q \in Procs \ {p} : /\ pc'[q] = pc[q] /\ job'[q] = job[q]
                                     /\ copy'[q] = copy[q] /\ verdict'[q] = verdict[q]
BY DEF ProcsType, Goto, Return

\* A reconciliation writes what the broker answered about the run's own order.
LEMMA ReconcileKeepsTruth ==
    ASSUME ~ForeignAnswers, TypeOK, SubmissionInv, TruthInv, NEW p \in Procs,
           Reconcile(p)
    PROVE  TruthInv'
<1>0. TablesType /\ ProcsType /\ BrokerType /\ [Next]_vars
  BY DEF TypeOK, Next
<1>1. CASE \/ \E r \in Runs : BeginReconcile(p, r)
           \/ LookupFailed(p) \/ Abandon(p)
  <2>1. UNCHANGED row
    BY <1>1 DEF BeginReconcile, LookupFailed, Abandon, tables
  <2>2. \E l \in {"idle", "lookup", "mark"} : \E r, v, c :
           Goto(p, l, r, v, c) \/ (Return(p) /\ l = "idle")
    BY <1>1 DEF BeginReconcile, LookupFailed, Abandon
  <2>. QED  BY <1>0, <2>1, <2>2, OthersKeepLocals, TruthWrite
<1>2. CASE LookupAnswered(p)
  <2>1. job[p] \in Runs /\ UNCHANGED row /\ UNCHANGED broker
    BY <1>0, <1>2, BusyHasRun DEF LookupAnswered, tables
  <2>2. PICK a \in Answers(job[p], copy[p].orderId) :
            IF SameOutcome(copy[p], Resolved(copy[p], a))
            THEN Return(p)
            ELSE Goto(p, "apply", job[p], "none", Resolved(copy[p], a))
    BY <1>2 DEF LookupAnswered
  <2>3. CASE Return(p)
    BY <1>0, <2>1, <2>3, OthersKeepLocals, TruthWrite
  <2>4. CASE Goto(p, "apply", job[p], "none", Resolved(copy[p], a))
    <3>1. /\ pc'[p] = "apply" /\ job'[p] = job[p]
          /\ copy'[p] = Resolved(copy[p], a)
      BY <1>0, <2>4 DEF Goto, ProcsType
    <3>2. a.class = book[job[p]] /\ a.positions = (job[p] \in execs)
      BY DEF Answers
    <3>3. TrueOf(job[p], LookupState(a.class, a.positions))
      BY <3>2 DEF TrueOf, LookupState
    <3>4. TrueOf(job[p], Resolved(copy[p], a).status)
      BY <3>3 DEF Resolved, TrueOf
    <3>5. \A r \in Runs : TrueOf(r, row[r].status)'
      BY <2>1 DEF TruthInv, TrueOf, broker
    <3>6. \A q \in Procs \ {p} : /\ pc'[q] = pc[q] /\ job'[q] = job[q]
                                /\ copy'[q] = copy[q] /\ verdict'[q] = verdict[q]
      BY <1>0, <2>4, OthersKeepLocals
    <3>. QED  BY <2>1, <3>1, <3>4, <3>5, <3>6 DEF TruthInv, TrueOf, broker
  <2>. QED  BY <2>2, <2>3, <2>4
<1>3. CASE ApplyLookup(p)
  <2>1. job[p] \in Runs /\ pc[p] = "apply" /\ Return(p)
    BY <1>0, <1>3, BusyHasRun DEF ApplyLookup
  <2>2. \A r \in Runs : row'[r] = row[r] \/ (r = job[p] /\ row'[r] = copy[p])
    BY <1>0, <1>3 DEF ApplyLookup, TablesType
  <2>3. \A r \in Runs : row'[r] = row[r] \/ TrueOf(r, row'[r].status)
    BY <2>1, <2>2 DEF TruthInv
  <2>. QED  BY <1>0, <2>1, <2>3, OthersKeepLocals, TruthWrite
<1>4. CASE MarkUnknown(p)
  <2>1. job[p] \in Runs /\ Return(p)
    BY <1>0, <1>4, BusyHasRun DEF MarkUnknown
  <2>2. \A r \in Runs : row'[r] = row[r] \/ row'[r].status = "unknown"
    BY <1>0, <1>4, <2>1 DEF MarkUnknown, SetStatus, TablesType, Row
  <2>. QED  BY <1>0, <2>1, <2>2, OthersKeepLocals, TruthWrite
<1>. QED  BY <1>1, <1>2, <1>3, <1>4 DEF Reconcile

\* A handler records a rejection only if the broker refused the POST.
LEMMA HandleKeepsTruth ==
    ASSUME TypeOK, SubmissionInv, TruthInv, NEW h \in Handlers, Handle(h)
    PROVE  TruthInv'
<1>0. TablesType /\ ProcsType /\ BrokerType /\ [Next]_vars /\ h \in Procs
  BY DEF TypeOK, Next, Procs
<1>1. CASE \/ \E r \in Runs : PreviewEvaluate(h, r) \/ ExecuteRead(h, r)
           \/ ExecuteEvaluate(h) \/ SubmitRefused(h) \/ Post(h) \/ InlineReconcile(h)
  <2>1. UNCHANGED row
    BY <1>1 DEF PreviewEvaluate, ExecuteRead, ExecuteEvaluate, SubmitRefused, Post,
                InlineReconcile, tables
  <2>2. \E l \in PC \ {"record", "apply"} : \E r, v, c :
           Goto(h, l, r, v, c) \/ (Return(h) /\ l = "idle")
    BY <1>1 DEF PreviewEvaluate, ExecuteRead, ExecuteEvaluate, SubmitRefused, Post,
                InlineReconcile, PC
  <2>. QED  BY <1>0, <2>1, <2>2, OthersKeepLocals, TruthWrite
<1>2. CASE PreviewInsert(h) \/ HoldRun(h) \/ SubmitIntent(h)
  <2>1. job[h] \in Runs
    BY <1>0, <1>2, BusyHasRun DEF PreviewInsert, HoldRun, SubmitIntent
  <2>2. \A r \in Runs :
           row'[r] = row[r] \/ row'[r].status \in {"ready", "hold", "submitting"}
    BY <1>0, <1>2, <2>1 DEF PreviewInsert, HoldRun, SubmitIntent, SetStatus,
                            TablesType, Row
  <2>3. \E l \in {"idle", "post"} : \E r, v, c :
           Goto(h, l, r, v, c) \/ (Return(h) /\ l = "idle")
    BY <1>2 DEF PreviewInsert, HoldRun, SubmitIntent
  <2>. QED  BY <1>0, <2>2, <2>3, OthersKeepLocals, TruthWrite
<1>3. CASE ReceiveOutcome(h)
  <2>1. PICK v \in Outcomes(job[h]) : Goto(h, "record", job[h], v, NoRow)
    BY <1>3 DEF ReceiveOutcome
  <2>2. /\ pc'[h] = "record" /\ job'[h] = job[h] /\ verdict'[h] = v
        /\ UNCHANGED <<row, broker>>
    BY <1>0, <1>3, <2>1 DEF ReceiveOutcome, Goto, ProcsType, tables
  <2>3. v = "rejected" => wire[job[h]] = "refused"
    BY DEF Outcomes
  <2>4. \A q \in Procs \ {h} : /\ pc'[q] = pc[q] /\ job'[q] = job[q]
                              /\ copy'[q] = copy[q] /\ verdict'[q] = verdict[q]
    BY <1>0, <2>1, OthersKeepLocals
  <2>. QED  BY <2>2, <2>3, <2>4 DEF TruthInv, TrueOf, broker
<1>4. CASE RecordSubmit(h)
  <2>1. job[h] \in Runs /\ pc[h] = "record" /\ verdict[h] \in Outcome
    BY <1>0, <1>4, BusyHasRun DEF RecordSubmit, ProcsType
  <2>2. \A r \in Runs :
           row'[r] = row[r] \/ (r = job[h] /\ row'[r].status = verdict[h])
    BY <1>0, <1>4, <2>1 DEF RecordSubmit, TablesType, Row
  <2>3. \A r \in Runs : row'[r] = row[r] \/ TrueOf(r, row'[r].status)
    <3>1. verdict[h] # "filled" /\ (verdict[h] = "rejected" => wire[job[h]] = "refused")
      BY <1>0, <2>1 DEF TruthInv, Outcome
    <3>2. TrueOf(job[h], verdict[h])
      BY <3>1 DEF TrueOf
    <3>. QED  BY <2>2, <3>2
  <2>4. \E l \in {"idle", "reread"} : \E r, v, c :
           Goto(h, l, r, v, c) \/ (Return(h) /\ l = "idle")
    BY <1>4 DEF RecordSubmit
  <2>. QED  BY <1>0, <2>3, <2>4, OthersKeepLocals, TruthWrite
<1>. QED  BY <1>1, <1>2, <1>3, <1>4 DEF Handle

\* The broker and time change no row and no process, a crash ends them all.
LEMMA OtherStepKeepsTruth ==
    ASSUME TypeOK, SubmissionInv, TruthInv, Environment \/ UNCHANGED vars
    PROVE  TruthInv'
<1>0. [Next]_vars /\ ProcsType
  BY DEF Next, TypeOK
<1>1. UNCHANGED row
  BY DEF Environment, Crash, Bind, Expire, Age, BrokerReceives, BrokerProgress,
         ClosePosition, vars, tables
<1>2. \A r \in Runs : TrueOf(r, row[r].status)'
  BY <1>0, <1>1, TruthIsStable DEF TruthInv, TrueOf
<1>3. CASE UNCHANGED procs
  <2>1. \A p \in Procs : pc[p] # "idle" => job[p] \in Runs
    BY <1>0, BusyHasRun
  <2>. QED  BY <1>0, <1>2, <1>3, <2>1, TruthIsStable DEF TruthInv, procs
<1>4. CASE Crash
  BY <1>2, <1>4 DEF TruthInv, Crash
<1>. QED  BY <1>3, <1>4 DEF Environment, Bind, Expire, Age, BrokerReceives,
                            BrokerProgress, ClosePosition, vars

\* Where lookups answer about the run's own order, no final status is wrong,
\* whatever responses were lost and however late a lookup is written.
THEOREM FinalIsTrue ==
    ASSUME ~ForeignAnswers
    PROVE  Spec => []FinalStatusIsTrue
<1>1. Init => TruthInv
  BY DEF Init, TruthInv, TrueOf, NoRow
<1>2. TypeOK /\ SubmissionInv /\ TruthInv /\ [Next]_vars => TruthInv'
  BY ReconcileKeepsTruth, HandleKeepsTruth, OtherStepKeepsTruth DEF Next
<1>3. TruthInv => FinalStatusIsTrue
  BY DEF TruthInv, TrueOf, FinalStatusIsTrue
<1>. QED  BY <1>1, <1>2, <1>3, SubmissionInvariant, TypeCorrect, PTL DEF Spec

\* While the broker may still act on an order its run blocks every other: a posted
\* run is active or final, and a final status that is true leaves nothing to come.
THEOREM UnsettledFrozen ==
    ASSUME ~ForeignAnswers
    PROVE  Spec => []UnsettledIsFrozen
<1>1. ASSUME TypeOK, SubmissionInv, FinalStatusIsTrue, NEW r \in Runs, Unsettled(r)
      PROVE  row[r].status \in Active
  <2>1. Started(r)
    BY <1>1 DEF Unsettled, SubmissionInv, PostInv, Class
  <2>2. row[r].status \notin {"filled", "rejected"}
    BY <1>1 DEF Unsettled, FinalStatusIsTrue, SubmissionInv, PostInv, LookupState,
                Active, Class
  <2>. QED  BY <1>1, <2>1, <2>2 DEF TypeOK, TablesType, Row, Status, Terminal, Started
<1>2. TypeOK /\ SubmissionInv /\ FinalStatusIsTrue => UnsettledIsFrozen
  BY <1>1 DEF UnsettledIsFrozen
<1>. QED  BY <1>2, FinalIsTrue, SubmissionInvariant, TypeCorrect, PTL
-----------------------------------------------------------------------------
(* DemoOrder implements DemoIntent: every step of the handlers, the sweeper,   *)
(* the broker and the environment is a step of the promise seen through        *)
(* PhaseOf, or invisible.                                                      *)

phaseBar == [r \in Runs |-> PhaseOf(row[r].status)]

\* The mapped phase of a run is the phase of its status.
LEMMA PhaseBarAt == \A r \in Runs : phaseBar[r] = PhaseOf(row[r].status)
BY DEF phaseBar

\* A step that leaves the rows and the POSTs alone is invisible.
LEMMA InvisibleStep ==
    ASSUME UNCHANGED <<row, posts>>
    PROVE  UNCHANGED <<phaseBar, posts>>
BY DEF phaseBar

\* A row changes alone: so does its phase.
LEMMA OnePhaseMoves ==
    ASSUME NEW r \in Runs, \A s \in Runs \ {r} : row'[s] = row[s]
    PROVE  phaseBar' = [phaseBar EXCEPT ![r] = PhaseOf(row'[r].status)]
BY DEF phaseBar

\* Writing an outcome settles the open intent or is invisible.
LEMMA OutcomeSettles ==
    ASSUME NEW r \in Runs, UNCHANGED posts, posts[r] = 1,
           \A s \in Runs \ {r} : row'[s] = row[s],
           \/ row'[r] = row[r]
           \/ /\ row[r].status \in Active
              /\ row'[r].status \in Active \cup {"filled", "rejected"}
    PROVE  Intent!Settle(r) \/ UNCHANGED <<phaseBar, posts>>
<1>1. CASE PhaseOf(row'[r].status) = PhaseOf(row[r].status)
  <2>1. phaseBar' = phaseBar
    BY <1>1 DEF phaseBar
  <2>. QED  BY <2>1
<1>2. CASE PhaseOf(row'[r].status) # PhaseOf(row[r].status)
  <2>1. /\ PhaseOf(row[r].status) = "open"
        /\ PhaseOf(row'[r].status) \in {"filled", "rejected"}
    BY <1>2 DEF PhaseOf, Active
  <2>2. phaseBar[r] = "open" /\ phaseBar' = [phaseBar EXCEPT ![r] = PhaseOf(row'[r].status)]
    BY <2>1, PhaseBarAt, OnePhaseMoves
  <2>. QED  BY <2>1, <2>2 DEF Intent!Settle, Intent!Move, phaseBar
<1>. QED  BY <1>1, <1>2

\* Every step of a reconciliation settles an open intent or is invisible.
LEMMA ReconcileRefines ==
    ASSUME TypeOK, SubmissionInv, NEW p \in Procs, Reconcile(p)
    PROVE  Intent!Next \/ UNCHANGED <<phaseBar, posts>>
<1>0. TablesType /\ ProcsType
  BY DEF TypeOK
<1>1. CASE ApplyLookup(p)
  <2>1. job[p] \in Runs /\ pc[p] = "apply" /\ UNCHANGED posts
    BY <1>0, <1>1, BusyHasRun DEF ApplyLookup, broker
  <2>2. /\ posts[job[p]] = 1
        /\ copy[p].status \in Active \cup {"filled", "rejected"}
    BY <2>1 DEF SubmissionInv, ReconcilerInv, PostInv
  <2>3. /\ \/ row'[job[p]] = row[job[p]]
           \/ row[job[p]].status \in Active /\ row'[job[p]] = copy[p]
        /\ \A s \in Runs \ {job[p]} : row'[s] = row[s]
    BY <1>0, <1>1, <2>1 DEF ApplyLookup, LookupWhere, TablesType
  <2>. QED  BY <2>1, <2>2, <2>3, OutcomeSettles DEF Intent!Next
<1>2. CASE MarkUnknown(p)
  <2>1. job[p] \in Runs /\ UNCHANGED posts
    BY <1>0, <1>2, BusyHasRun DEF MarkUnknown, broker
  <2>2. \A s \in Runs : PhaseOf(row'[s].status) = PhaseOf(row[s].status)
    BY <1>0, <1>2, <2>1 DEF MarkUnknown, MarkWhere, SetStatus, TablesType, Row,
                            PhaseOf, Active
  <2>. QED  BY <2>1, <2>2 DEF phaseBar
<1>3. CASE \/ \E r \in Runs : BeginReconcile(p, r)
           \/ LookupAnswered(p) \/ LookupFailed(p) \/ Abandon(p)
  BY <1>3, InvisibleStep DEF BeginReconcile, LookupAnswered, LookupFailed, Abandon,
                             tables, broker
<1>. QED  BY <1>1, <1>2, <1>3 DEF Reconcile

\* Every step of a handler is a step of the promise or invisible.
LEMMA HandleRefines ==
    ASSUME TypeOK, SubmissionInv, NEW h \in Handlers, Handle(h)
    PROVE  Intent!Next \/ UNCHANGED <<phaseBar, posts>>
<1>0. TablesType /\ ProcsType /\ BrokerType /\ h \in Procs
  BY DEF TypeOK, Procs
<1>1. CASE PreviewInsert(h)
  <2>1. job[h] \in Runs /\ UNCHANGED posts
    BY <1>0, <1>1, BusyHasRun DEF PreviewInsert, broker
  <2>2. CASE row[job[h]].status = "none"
    <3>1. /\ PhaseOf(row[job[h]].status) = "none"
          /\ PhaseOf(row'[job[h]].status) \in {"ready", "hold"}
          /\ \A s \in Runs \ {job[h]} : row'[s] = row[s]
      BY <1>0, <1>1, <2>1, <2>2
         DEF PreviewInsert, SetStatus, TablesType, Row, PhaseOf, Active
    <3>2. /\ phaseBar[job[h]] = "none"
          /\ phaseBar' = [phaseBar EXCEPT ![job[h]] = PhaseOf(row'[job[h]].status)]
      BY <2>1, <3>1, PhaseBarAt, OnePhaseMoves
    <3>3. Intent!Decide(job[h])
      BY <2>1, <3>1, <3>2 DEF Intent!Decide, Intent!Move, phaseBar
    <3>. QED  BY <2>1, <3>3 DEF Intent!Next
  <2>3. CASE row[job[h]].status # "none"
    BY <1>1, <2>1, <2>3, InvisibleStep DEF PreviewInsert
  <2>. QED  BY <2>2, <2>3
<1>2. CASE HoldRun(h)
  <2>1. job[h] \in Runs /\ UNCHANGED posts
    BY <1>0, <1>2, BusyHasRun DEF HoldRun, broker
  <2>2. CASE row[job[h]].status = "ready"
    <3>1. /\ PhaseOf(row[job[h]].status) = "ready"
          /\ PhaseOf(row'[job[h]].status) = "hold"
          /\ \A s \in Runs \ {job[h]} : row'[s] = row[s]
      BY <1>0, <1>2, <2>1, <2>2
         DEF HoldRun, HoldWhere, SetStatus, TablesType, Row, PhaseOf, Active
    <3>2. /\ phaseBar[job[h]] = "ready"
          /\ phaseBar' = [phaseBar EXCEPT ![job[h]] = "hold"]
      BY <2>1, <3>1, PhaseBarAt, OnePhaseMoves
    <3>3. Intent!Withdraw(job[h])
      BY <2>1, <3>2 DEF Intent!Withdraw, Intent!Move, phaseBar
    <3>. QED  BY <2>1, <3>3 DEF Intent!Next
  <2>3. CASE row[job[h]].status # "ready"
    BY <1>2, <2>1, <2>3, InvisibleStep DEF HoldRun, HoldWhere
  <2>. QED  BY <2>2, <2>3
<1>3. CASE SubmitIntent(h)
  <2>1. job[h] \in Runs /\ UNCHANGED posts
    BY <1>0, <1>3, BusyHasRun DEF SubmitIntent, broker
  <2>2. /\ row[job[h]].status = "ready"
        /\ row'[job[h]].status = "submitting"
        /\ \A s \in Runs \ {job[h]} : row'[s] = row[s] /\ row[s].status \notin Active
    BY <1>0, <1>3, <2>1 DEF SubmitIntent, SetStatus, MaySubmit, IndexAdmits,
                            TablesType, Row
  <2>3. /\ PhaseOf(row[job[h]].status) = "ready"
        /\ PhaseOf(row'[job[h]].status) = "open"
        /\ \A s \in Runs : PhaseOf(row[s].status) # "open"
    <3>1. \A s \in Runs : row[s].status \in Status /\ row[s].status \notin Active
      BY <1>0, <2>2 DEF TablesType, Row, Active
    <3>. QED  BY <2>2, <3>1 DEF PhaseOf, Active, Status, Terminal
  <2>4. /\ phaseBar[job[h]] = "ready"
        /\ phaseBar' = [phaseBar EXCEPT ![job[h]] = "open"]
        /\ \A s \in Runs : phaseBar[s] # "open"
    BY <2>1, <2>2, <2>3, PhaseBarAt, OnePhaseMoves
  <2>5. Intent!OpenIntent(job[h])
    BY <2>1, <2>4 DEF Intent!OpenIntent, Intent!Move, phaseBar
  <2>. QED  BY <2>1, <2>5 DEF Intent!Next
<1>4. CASE Post(h)
  <2>1. job[h] \in Runs /\ pc[h] = "post" /\ UNCHANGED row
    BY <1>0, <1>4, BusyHasRun DEF Post, tables
  <2>2. posts[job[h]] = 0 /\ row[job[h]].status \in Active
    BY <1>0, <2>1 DEF SubmissionInv, SubmitterInv, Submitting
  <2>3. posts' = [posts EXCEPT ![job[h]] = 1]
    BY <1>0, <1>4, <2>1, <2>2 DEF Post, BrokerType
  <2>4. phaseBar[job[h]] = "open" /\ phaseBar' = phaseBar
    BY <2>1, <2>2 DEF phaseBar, PhaseOf
  <2>5. Intent!Send(job[h])
    BY <2>2, <2>3, <2>4 DEF Intent!Send, phaseBar
  <2>. QED  BY <2>1, <2>5 DEF Intent!Next
<1>5. CASE RecordSubmit(h)
  <2>1. /\ job[h] \in Runs /\ verdict[h] \in Outcome /\ pc[h] = "record"
        /\ UNCHANGED posts
    BY <1>0, <1>5, BusyHasRun DEF RecordSubmit, ProcsType, broker
  <2>2. posts[job[h]] = 1
    BY <1>0, <2>1 DEF SubmissionInv, SubmitterInv, Submitting
  <2>3. /\ \/ row'[job[h]] = row[job[h]]
           \/ /\ row[job[h]].status \in Active
              /\ row'[job[h]].status \in Active \cup {"filled", "rejected"}
        /\ \A s \in Runs \ {job[h]} : row'[s] = row[s]
    BY <1>0, <1>5, <2>1 DEF RecordSubmit, RecordWhere, TablesType, Row, Active, Outcome
  <2>. QED  BY <2>1, <2>2, <2>3, OutcomeSettles DEF Intent!Next
<1>6. CASE \/ \E r \in Runs : PreviewEvaluate(h, r) \/ ExecuteRead(h, r)
           \/ ExecuteEvaluate(h) \/ SubmitRefused(h) \/ ReceiveOutcome(h)
           \/ InlineReconcile(h)
  BY <1>6, InvisibleStep DEF PreviewEvaluate, ExecuteRead, ExecuteEvaluate,
     SubmitRefused, ReceiveOutcome, InlineReconcile, tables, broker
<1>. QED  BY <1>1, <1>2, <1>3, <1>4, <1>5, <1>6 DEF Handle

\* The Demo order path keeps the promise of DemoIntent: one open intent at a
\* time, one POST per intent, closed only by a fill or a rejection.
THEOREM OrderKeepsIntentPromise == Spec => KeepsIntentPromise
<1>1. Init => Intent!Init
  BY DEF Init, NoRow, PhaseOf, Active, Intent!Init
<1>2. TypeOK /\ SubmissionInv /\ [Next]_vars =>
        Intent!Next \/ UNCHANGED <<phaseBar, posts>>
  <2>1. ASSUME Environment PROVE UNCHANGED <<phaseBar, posts>>
    BY <2>1, InvisibleStep DEF Environment, Crash, Bind, Expire, Age, BrokerReceives,
       BrokerProgress, ClosePosition, tables, broker
  <2>2. ASSUME UNCHANGED vars PROVE UNCHANGED <<phaseBar, posts>>
    BY <2>2, InvisibleStep DEF vars, tables, broker
  <2>. QED  BY <2>1, <2>2, ReconcileRefines, HandleRefines DEF Next
<1>3. TypeOK /\ SubmissionInv /\ [Next]_vars => [Intent!Next]_<<phaseBar, posts>>
  BY <1>2
<1>. QED  BY <1>1, <1>3, TypeCorrect, SubmissionInvariant, PTL
         DEF Spec, KeepsIntentPromise, Intent!Spec, phaseBar
=============================================================================
