--------------------------- MODULE DemoOrderProofs ---------------------------
(***************************************************************************)
(* Proofs about DemoOrder, for any sets of runs and handlers, any number   *)
(* of crashes, and whatever the broker answers.                            *)
(***************************************************************************)
EXTENDS DemoOrder, TLAPS

-----------------------------------------------------------------------------
(* Types *)

\* A broker answer is a row, whatever status it stands for.
LEMMA LookupStateType ==
    ASSUME NEW c \in Class \cup {"none"}, NEW e \in BOOLEAN
    PROVE  LookupState(c, e) \in
             {"accepted", "unknown", "partially_filled", "filled", "rejected"}
BY DEF LookupState, Class

\* Goto keeps the process variables' types when p goes on with a run.
LEMMA GotoType ==
    ASSUME ProcsType, NEW p \in Procs, NEW l \in PC \ {"idle"}, NEW r \in Runs,
           NEW v \in Verdict, l = "record" => v \in Outcome,
           NEW c \in Row, Goto(p, l, r, v, c)
    PROVE  ProcsType'
<1>1. r # NoRun
  BY ConstantsAssumption
<1>. QED  BY <1>1 DEF ProcsType, Goto

\* So does Return, which leaves p idle.
LEMMA ReturnType ==
    ASSUME ProcsType, NEW p \in Procs, Return(p)
    PROVE  ProcsType'
<1>1. "idle" \in PC /\ "none" \in Verdict /\ NoRow \in Row
  BY DEF PC, Verdict, NoRow, Row, Status, OrderId
<1>. QED  BY <1>1 DEF ProcsType, Return, Goto

\* A process that is not idle has a run.
LEMMA BusyHasRun ==
    ASSUME ProcsType, NEW p \in Procs, pc[p] # "idle"
    PROVE  job[p] \in Runs
BY DEF ProcsType

\* A new status, or an added event, keeps the tables' types.
LEMMA SetStatusType ==
    ASSUME row \in [Runs -> Row], NEW r \in Runs, NEW s \in Status, SetStatus(r, s)
    PROVE  row' \in [Runs -> Row]
BY DEF SetStatus, Row

\* An added event keeps the type of the trail.
LEMMA AddEventType ==
    ASSUME trail \in [Runs -> SUBSET EventKind], NEW r \in Runs,
           NEW k \in EventKind, AddEvent(r, k)
    PROVE  trail' \in [Runs -> SUBSET EventKind]
BY DEF AddEvent

\* A row resolved from a broker answer is a row with a broker status.
LEMMA ResolvedType ==
    ASSUME NEW k \in Row, NEW r \in Runs, book[r] \in Class \cup {"none"},
           NEW a \in Answers(r, k.orderId)
    PROVE  /\ Resolved(k, a) \in Row
           /\ Resolved(k, a).status \in
                {"accepted", "unknown", "partially_filled", "filled", "rejected"}
           /\ book[r] # "none"
<1>. DEFINE own == [orderId |-> "own", class |-> book[r], positions |-> r \in execs]
            fill == [orderId |-> "other", class |-> "filled", positions |-> TRUE]
            reject == [orderId |-> "other", class |-> "rejected", positions |-> FALSE]
<1>0. book[r] # "none" /\ (a = own \/ a = fill \/ a = reject)
  BY DEF Answers
<1>1. /\ a.orderId \in OrderId /\ a.class \in Class \cup {"none"}
      /\ a.positions \in BOOLEAN /\ book[r] # "none"
  <2>1. CASE a = own
    <3>1. a.orderId = "own" /\ a.class = book[r] /\ a.positions = (r \in execs)
      BY <2>1
    <3>. QED  BY <1>0, <3>1 DEF OrderId
  <2>2. CASE a = fill
    <3>1. a.orderId = "other" /\ a.class = "filled" /\ a.positions = TRUE
      BY <2>2
    <3>. QED  BY <1>0, <3>1 DEF OrderId, Class
  <2>3. CASE a = reject
    <3>1. a.orderId = "other" /\ a.class = "rejected" /\ a.positions = FALSE
      BY <2>3
    <3>. QED  BY <1>0, <3>1 DEF OrderId, Class
  <2>. QED  BY <1>0, <2>1, <2>2, <2>3
<1>2. LookupState(a.class, a.positions) \in
        {"accepted", "unknown", "partially_filled", "filled", "rejected"}
  BY <1>1, LookupStateType
<1>. QED  BY <1>1, <1>2 DEF Resolved, Row, Status, Active, Terminal

-----------------------------------------------------------------------------
(* Every reachable state is well typed: one lemma per kind of process step,  *)
(* one step per action.                                                      *)

\* The initial state is well typed.
LEMMA InitType == Init => TypeOK
<1> SUFFICES ASSUME Init PROVE TypeOK
  OBVIOUS
<1>1. NoRow \in Row
  BY DEF NoRow, Row, Status, OrderId
<1>2. TablesType
  BY <1>1 DEF Init, TablesType
<1>3. ProcsType
  BY <1>1 DEF Init, ProcsType, PC, Verdict, Outcome
<1>4. BrokerType /\ HostType
  BY DEF Init, BrokerType, HostType, Fate
<1>. QED  BY <1>2, <1>3, <1>4 DEF TypeOK

\* A reconciliation step keeps the types.
LEMMA ReconcileType ==
    ASSUME TypeOK, NEW p \in Procs, Reconcile(p)
    PROVE  TypeOK'
<1>0. TablesType /\ ProcsType /\ BrokerType /\ HostType
  BY DEF TypeOK
<1>1. "none" \in Verdict /\ NoRow \in Row
  BY DEF Verdict, Outcome, NoRow, Row, Status, OrderId
<1>2. ASSUME NEW r \in Runs, BeginReconcile(p, r) PROVE TypeOK'
  <2>1. ProcsType'
    <3>1. row[r] \in Row /\ "lookup" \in PC \ {"idle"}
      BY <1>0 DEF TablesType, PC
    <3>. QED  BY <1>0, <1>1, <1>2, <3>1, GotoType DEF BeginReconcile
  <2>2. TablesType' /\ BrokerType' /\ HostType'
    BY <1>0, <1>2 DEF BeginReconcile, tables, broker, host,
                      TablesType, BrokerType, HostType
  <2>. QED  BY <2>1, <2>2 DEF TypeOK
<1>3. ASSUME LookupAnswered(p) PROVE TypeOK'
  <2>1. ProcsType'
    <3>1. PICK a \in Answers(job[p], copy[p].orderId) :
            IF SameOutcome(copy[p], Resolved(copy[p], a))
            THEN Return(p)
            ELSE Goto(p, "apply", job[p], "none", Resolved(copy[p], a))
      BY <1>3 DEF LookupAnswered
    <3>2. job[p] \in Runs
      BY <1>0, <1>3, BusyHasRun DEF LookupAnswered
    <3>3. copy[p] \in Row /\ book[job[p]] \in Class \cup {"none"}
      BY <1>0, <3>2 DEF ProcsType, BrokerType
    <3>4. Resolved(copy[p], a) \in Row /\ "apply" \in PC \ {"idle"}
      BY <3>2, <3>3, ResolvedType DEF PC
    <3>5. CASE SameOutcome(copy[p], Resolved(copy[p], a))
      BY <1>0, <3>1, <3>5, ReturnType
    <3>6. CASE ~SameOutcome(copy[p], Resolved(copy[p], a))
      BY <1>0, <1>1, <3>1, <3>2, <3>4, <3>6, GotoType
    <3>. QED  BY <3>5, <3>6
  <2>2. TablesType' /\ BrokerType' /\ HostType'
    BY <1>0, <1>3 DEF LookupAnswered, tables, broker, host,
                      TablesType, BrokerType, HostType
  <2>. QED  BY <2>1, <2>2 DEF TypeOK
<1>4. ASSUME LookupFailed(p) PROVE TypeOK'
  <2>1. ProcsType'
    <3>1. job[p] \in Runs /\ "mark" \in PC \ {"idle"}
      BY <1>0, <1>4, BusyHasRun DEF LookupFailed, PC
    <3>. QED  BY <1>0, <1>1, <1>4, <3>1, GotoType, ReturnType DEF LookupFailed
  <2>2. TablesType' /\ BrokerType' /\ HostType'
    BY <1>0, <1>4 DEF LookupFailed, tables, broker, host,
                      TablesType, BrokerType, HostType
  <2>. QED  BY <2>1, <2>2 DEF TypeOK
<1>5. ASSUME ApplyLookup(p) PROVE TypeOK'
  <2>1. ProcsType'
    BY <1>0, <1>5, ReturnType DEF ApplyLookup
  <2>2. job[p] \in Runs /\ copy[p] \in Row
    BY <1>0, <1>5, BusyHasRun DEF ApplyLookup, ProcsType
  <2>3. TablesType'
    <3>1. trail' \in [Runs -> SUBSET EventKind]
      BY <1>0, <1>5, <2>2, AddEventType DEF ApplyLookup, TablesType, EventKind
    <3>. QED  BY <1>0, <1>5, <2>2, <3>1 DEF ApplyLookup, TablesType
  <2>4. BrokerType' /\ HostType'
    BY <1>0, <1>5 DEF ApplyLookup, broker, host, BrokerType, HostType
  <2>. QED  BY <2>1, <2>3, <2>4 DEF TypeOK
<1>6. ASSUME MarkUnknown(p) PROVE TypeOK'
  <2>1. ProcsType'
    BY <1>0, <1>6, ReturnType DEF MarkUnknown
  <2>2. job[p] \in Runs
    BY <1>0, <1>6, BusyHasRun DEF MarkUnknown
  <2>3. TablesType'
    <3>1. trail' \in [Runs -> SUBSET EventKind]
      BY <1>0, <1>6, <2>2, AddEventType DEF MarkUnknown, TablesType, EventKind
    <3>2. row' \in [Runs -> Row]
      BY <1>0, <1>6, <2>2, SetStatusType DEF MarkUnknown, TablesType, Status, Active
    <3>. QED  BY <1>0, <1>6, <3>1, <3>2 DEF MarkUnknown, TablesType
  <2>4. BrokerType' /\ HostType'
    BY <1>0, <1>6 DEF MarkUnknown, broker, host, BrokerType, HostType
  <2>. QED  BY <2>1, <2>3, <2>4 DEF TypeOK
<1>7. ASSUME Abandon(p) PROVE TypeOK'
  <2>1. ProcsType'
    BY <1>0, <1>7, ReturnType DEF Abandon
  <2>2. TablesType' /\ BrokerType' /\ HostType'
    BY <1>0, <1>7 DEF Abandon, tables, broker, host,
                      TablesType, BrokerType, HostType
  <2>. QED  BY <2>1, <2>2 DEF TypeOK
<1>. QED  BY <1>2, <1>3, <1>4, <1>5, <1>6, <1>7 DEF Reconcile

\* A handler step keeps the types.
LEMMA HandleType ==
    ASSUME TypeOK, NEW h \in Handlers, Handle(h)
    PROVE  TypeOK'
<1>0. TablesType /\ ProcsType /\ BrokerType /\ HostType /\ h \in Procs
  BY DEF TypeOK, Procs
<1>1. "none" \in Verdict /\ NoRow \in Row /\ Verdicts \subseteq Verdict
  BY DEF Verdict, Outcome, NoRow, Row, Status, OrderId, Verdicts
<1>2. ASSUME NEW r \in Runs, PreviewEvaluate(h, r) PROVE TypeOK'
  <2>1. ProcsType'
    BY <1>0, <1>1, <1>2, GotoType DEF PreviewEvaluate, PC
  <2>2. TablesType' /\ BrokerType' /\ HostType'
    BY <1>0, <1>2 DEF PreviewEvaluate, tables, broker, host,
                      TablesType, BrokerType, HostType
  <2>. QED  BY <2>1, <2>2 DEF TypeOK
<1>3. ASSUME NEW r \in Runs, ExecuteRead(h, r) PROVE TypeOK'
  <2>1. ProcsType'
    BY <1>0, <1>1, <1>3, GotoType DEF ExecuteRead, PC
  <2>2. TablesType' /\ BrokerType' /\ HostType'
    BY <1>0, <1>3 DEF ExecuteRead, tables, broker, host,
                      TablesType, BrokerType, HostType
  <2>. QED  BY <2>1, <2>2 DEF TypeOK
<1>4. ASSUME PreviewInsert(h) PROVE TypeOK'
  <2>1. ProcsType'
    BY <1>0, <1>4, ReturnType DEF PreviewInsert
  <2>2. job[h] \in Runs
    BY <1>0, <1>4, BusyHasRun DEF PreviewInsert
  <2>3. TablesType'
    <3>1. row' \in [Runs -> Row]
      BY <1>0, <1>4, <2>2, SetStatusType
         DEF PreviewInsert, TablesType, Status, Terminal
    <3>2. trail' \in [Runs -> SUBSET EventKind]
      BY <1>0, <1>4, <2>2, AddEventType DEF PreviewInsert, TablesType, EventKind
    <3>. QED  BY <1>0, <1>4, <3>1, <3>2 DEF PreviewInsert, TablesType
  <2>4. BrokerType' /\ HostType'
    BY <1>0, <1>4 DEF PreviewInsert, broker, host, BrokerType, HostType
  <2>. QED  BY <2>1, <2>3, <2>4 DEF TypeOK
<1>5. ASSUME ExecuteEvaluate(h) PROVE TypeOK'
  <2>1. job[h] \in Runs
    BY <1>0, <1>5, BusyHasRun DEF ExecuteEvaluate
  <2>2. ProcsType'
    BY <1>0, <1>1, <1>5, <2>1, GotoType DEF ExecuteEvaluate, PC
  <2>3. TablesType' /\ BrokerType' /\ HostType'
    BY <1>0, <1>5 DEF ExecuteEvaluate, tables, broker, host,
                      TablesType, BrokerType, HostType
  <2>. QED  BY <2>2, <2>3 DEF TypeOK
<1>6. ASSUME HoldRun(h) PROVE TypeOK'
  <2>1. ProcsType'
    BY <1>0, <1>6, ReturnType DEF HoldRun
  <2>2. job[h] \in Runs
    BY <1>0, <1>6, BusyHasRun DEF HoldRun
  <2>3. TablesType'
    <3>1. row' \in [Runs -> Row]
      BY <1>0, <1>6, <2>2, SetStatusType DEF HoldRun, TablesType, Status, Terminal
    <3>2. trail' \in [Runs -> SUBSET EventKind]
      BY <1>0, <1>6, <2>2, AddEventType DEF HoldRun, TablesType, EventKind
    <3>. QED  BY <1>0, <1>6, <3>1, <3>2 DEF HoldRun, TablesType
  <2>4. BrokerType' /\ HostType'
    BY <1>0, <1>6 DEF HoldRun, broker, host, BrokerType, HostType
  <2>. QED  BY <2>1, <2>3, <2>4 DEF TypeOK
<1>7. ASSUME SubmitIntent(h) PROVE TypeOK'
  <2>2. job[h] \in Runs
    BY <1>0, <1>7, BusyHasRun DEF SubmitIntent
  <2>1. ProcsType'
    BY <1>0, <1>1, <1>7, <2>2, GotoType DEF SubmitIntent, PC
  <2>3. TablesType'
    <3>1. row' \in [Runs -> Row]
      BY <1>0, <1>7, <2>2, SetStatusType DEF SubmitIntent, TablesType, Status, Active
    <3>2. trail' \in [Runs -> SUBSET EventKind]
      BY <1>0, <1>7, <2>2, AddEventType DEF SubmitIntent, TablesType, EventKind
    <3>. QED  BY <1>0, <1>7, <3>1, <3>2 DEF SubmitIntent, TablesType
  <2>4. BrokerType' /\ HostType'
    BY <1>0, <1>7 DEF SubmitIntent, broker, host, BrokerType, HostType
  <2>. QED  BY <2>1, <2>3, <2>4 DEF TypeOK
<1>8. ASSUME SubmitRefused(h) PROVE TypeOK'
  <2>1. ProcsType'
    BY <1>0, <1>8, ReturnType DEF SubmitRefused
  <2>2. TablesType' /\ BrokerType' /\ HostType'
    BY <1>0, <1>8 DEF SubmitRefused, tables, broker, host,
                      TablesType, BrokerType, HostType
  <2>. QED  BY <2>1, <2>2 DEF TypeOK
<1>9. ASSUME Post(h) PROVE TypeOK'
  <2>1. job[h] \in Runs
    BY <1>0, <1>9, BusyHasRun DEF Post
  <2>2. ProcsType'
    BY <1>0, <1>1, <1>9, <2>1, GotoType DEF Post, PC
  <2>3. TablesType' /\ HostType'
    BY <1>0, <1>9 DEF Post, tables, host, TablesType, HostType
  <2>4. BrokerType'
    BY <1>0, <1>9, <2>1 DEF Post, BrokerType, Fate
  <2>. QED  BY <2>2, <2>3, <2>4 DEF TypeOK
<1>10. ASSUME ReceiveOutcome(h) PROVE TypeOK'
  <2>1. job[h] \in Runs /\ Outcomes(job[h]) \subseteq Outcome /\ Outcome \subseteq Verdict
    BY <1>0, <1>10, BusyHasRun DEF ReceiveOutcome, Outcomes, Outcome, Verdict
  <2>2. ProcsType'
    BY <1>0, <1>1, <1>10, <2>1, GotoType DEF ReceiveOutcome, PC
  <2>3. TablesType' /\ BrokerType' /\ HostType'
    BY <1>0, <1>10 DEF ReceiveOutcome, tables, broker, host,
                       TablesType, BrokerType, HostType
  <2>. QED  BY <2>2, <2>3 DEF TypeOK
<1>11. ASSUME RecordSubmit(h) PROVE TypeOK'
  <2>1. job[h] \in Runs /\ verdict[h] \in Outcome
    BY <1>0, <1>11, BusyHasRun DEF RecordSubmit, ProcsType
  <2>2. ProcsType'
    BY <1>0, <1>1, <1>11, <2>1, GotoType, ReturnType DEF RecordSubmit, PC
  <2>3. TablesType'
    <3>1. row' \in [Runs -> Row]
      BY <1>0, <1>11, <2>1
         DEF RecordSubmit, TablesType, Row, Status, Active, Terminal, Outcome, OrderId
    <3>2. SubmissionEvent(verdict[h]) \in EventKind
      BY DEF SubmissionEvent, EventKind
    <3>3. trail' \in [Runs -> SUBSET EventKind]
      BY <1>0, <1>11, <2>1, <3>2, AddEventType DEF RecordSubmit, TablesType
    <3>. QED  BY <1>0, <1>11, <3>1, <3>3 DEF RecordSubmit, TablesType
  <2>4. BrokerType' /\ HostType'
    BY <1>0, <1>11 DEF RecordSubmit, broker, host, BrokerType, HostType
  <2>. QED  BY <2>2, <2>3, <2>4 DEF TypeOK
<1>12. ASSUME InlineReconcile(h) PROVE TypeOK'
  <2>1. job[h] \in Runs /\ row[job[h]] \in Row
    BY <1>0, <1>12, BusyHasRun DEF InlineReconcile, TablesType
  <2>2. ProcsType'
    BY <1>0, <1>1, <1>12, <2>1, GotoType, ReturnType DEF InlineReconcile, PC
  <2>3. TablesType' /\ BrokerType' /\ HostType'
    BY <1>0, <1>12 DEF InlineReconcile, tables, broker, host,
                       TablesType, BrokerType, HostType
  <2>. QED  BY <2>2, <2>3 DEF TypeOK
<1>. QED  BY <1>2, <1>3, <1>4, <1>5, <1>6, <1>7, <1>8, <1>9, <1>10, <1>11, <1>12
         DEF Handle

\* The broker, the clock and a crash keep the types.
LEMMA EnvironmentType ==
    ASSUME TypeOK, Environment
    PROVE  TypeOK'
<1>0. TablesType /\ ProcsType /\ BrokerType /\ HostType
  BY DEF TypeOK
<1>1. ASSUME Crash PROVE TypeOK'
  <2>1. "idle" \in PC /\ "none" \in Verdict /\ NoRow \in Row
    BY DEF PC, Verdict, NoRow, Row, Status, OrderId
  <2>2. ProcsType'
    BY <1>1, <2>1 DEF Crash, ProcsType
  <2>3. HostType'
    <3>1. bound' \in BOOLEAN
      BY <1>1 DEF Crash
    <3>2. crashes' \in Nat
      BY <1>0, <1>1 DEF Crash, HostType
    <3>. QED  BY <3>1, <3>2 DEF HostType
  <2>4. TablesType' /\ BrokerType'
    BY <1>0, <1>1 DEF Crash, tables, broker, TablesType, BrokerType
  <2>. QED  BY <2>2, <2>3, <2>4 DEF TypeOK
<1>2. ASSUME Bind PROVE TypeOK'
  BY <1>0, <1>2 DEF Bind, tables, procs, broker,
     TypeOK, TablesType, ProcsType, BrokerType, HostType
<1>3. ASSUME NEW r \in Runs, Expire(r) PROVE TypeOK'
  BY <1>0, <1>3 DEF Expire, procs, broker, host,
     TypeOK, TablesType, ProcsType, BrokerType, HostType
<1>4. ASSUME NEW r \in Runs, Age(r) PROVE TypeOK'
  BY <1>0, <1>4 DEF Age, procs, broker, host,
     TypeOK, TablesType, ProcsType, BrokerType, HostType
<1>5. ASSUME NEW r \in Runs, BrokerReceives(r) PROVE TypeOK'
  <2>1. BrokerType'
    BY <1>0, <1>5 DEF BrokerReceives, BrokerType, Fate, Class
  <2>2. TablesType' /\ ProcsType' /\ HostType'
    BY <1>0, <1>5 DEF BrokerReceives, tables, procs, host,
                      TablesType, ProcsType, HostType
  <2>. QED  BY <2>1, <2>2 DEF TypeOK
<1>6. ASSUME NEW r \in Runs, BrokerProgress(r) PROVE TypeOK'
  <2>1. BrokerType'
    BY <1>0, <1>6, ConstantsAssumption DEF BrokerProgress, BrokerType, Class
  <2>2. TablesType' /\ ProcsType' /\ HostType'
    BY <1>0, <1>6 DEF BrokerProgress, tables, procs, host,
                      TablesType, ProcsType, HostType
  <2>. QED  BY <2>1, <2>2 DEF TypeOK
<1>7. ASSUME NEW r \in Runs, ClosePosition(r) PROVE TypeOK'
  BY <1>0, <1>7 DEF ClosePosition, tables, procs, host,
     TypeOK, TablesType, ProcsType, BrokerType, HostType
<1>. QED  BY <1>1, <1>2, <1>3, <1>4, <1>5, <1>6, <1>7 DEF Environment

\* Every reachable state is well typed; in particular a row's status is one the
\* table's CHECK constraint admits, and a process that works has a run.
THEOREM TypeCorrect == Spec => []TypeOK
<1>1. TypeOK /\ [Next]_vars => TypeOK'
  <2>1. ASSUME TypeOK, UNCHANGED vars PROVE TypeOK'
    BY <2>1 DEF vars, tables, procs, broker, host,
       TypeOK, TablesType, ProcsType, BrokerType, HostType
  <2>. QED  BY <2>1, ReconcileType, HandleType, EnvironmentType DEF Next
<1>. QED  BY <1>1, InitType, PTL DEF Spec
=============================================================================
