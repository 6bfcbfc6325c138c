---------------------------- MODULE WebLabProofs ----------------------------
(* Proofs about WebLab, for any keys, experiments and fixtures, and any number *)
(* of requests on their way.                                                   *)
EXTENDS WebLab, SumProofs

Outcome == (Inputs \cup {NoInput}) \X (Versions \cup {NoVersion})

Row == [status : Status \cup {"none"}, input : Inputs \cup {NoInput},
        hash : Versions \cup {NoVersion}, result : Outcome]

TableInv ==
    /\ table \in [Keys -> Row]
    /\ created \in Seq(Keys)
    /\ {created[i] : i \in DOMAIN created} = {k \in Keys : table[k].status # "none"}

PageInv ==
    /\ selected \in Keys \cup {None}
    /\ current = NoView \/ (current.id \in Keys /\ current.status \in Status)
    /\ pendingKey \in Keys \cup {None}
    /\ post = NoPost \/
         (/\ post \in [key : Keys, form : Forms, accepted : BOOLEAN]
          /\ post.key = pendingKey)
    /\ busy \in BOOLEAN
    /\ load = NoLoad \/
         (busy /\ load \in [id : Keys, answer : Status \cup {"none"}])
    /\ wire \subseteq Keys \X Forms
    /\ fate \in [Keys -> {"unused", "drawn", "settled"}]

\* Only a pending key is drawn; a request on its way has a key of this page; a key
\* nobody has drawn has no run.
KeyInv ==
    /\ \A k \in Keys : fate[k] = "drawn" <=> k = pendingKey
    /\ \A r \in wire : fate[r[1]] \in {"drawn", "settled"}
    /\ \A k \in Keys : fate[k] = "unused" => table[k].status = "none"

\* What the page shows, is about to show or may load was true of the run.
ViewInv ==
    /\ \A c \in clicked : /\ c \in [id : Keys, status : Status]
                          /\ c.status \in {"queued", table[c.id].status}
                          /\ table[c.id].status \in Status
    /\ load # NoLoad => load.answer \in {"none", "queued", table[load.id].status}
    /\ ShownIsSelected

Inv == TableInv /\ PageInv /\ KeyInv /\ ViewInv

-----------------------------------------------------------------------------
(* The table *)

LEMMA InsertGrows ==
    ASSUME TableInv, NEW k \in Keys, NEW x \in Inputs, Insert(k, x)
    PROVE  /\ TableInv'
           /\ table[k].status = "none" /\ table'[k].status = "queued"
           /\ \A j \in Keys \ {k} : table'[j] = table[j]
<1>1. table[k].status = "none"
  BY DEF Insert, Promise!Accept
<1>2. PICK y \in Inputs, v \in Versions :
        table' = [table EXCEPT ![k] = [status |-> "queued", input |-> y, hash |-> v,
                                       result |-> Promise!NoResult]]
  BY DEF Insert, Promise!Accept
<1>3. table' \in [Keys -> Row]
  BY <1>2 DEF TableInv, Row, Outcome, Promise!NoResult, Status
<1>4. table'[k].status = "queued" /\ \A j \in Keys \ {k} : table'[j] = table[j]
  BY <1>2 DEF TableInv
<1>5. created' \in Seq(Keys) /\ Len(created') = Len(created) + 1
        /\ created'[Len(created) + 1] = k
        /\ \A i \in 1..Len(created) : created'[i] = created[i]
  BY DEF TableInv, Insert
<1>6. {created'[i] : i \in DOMAIN created'} = {created[i] : i \in DOMAIN created} \cup {k}
  <2>1. DOMAIN created' = DOMAIN created \cup {Len(created) + 1}
        /\ DOMAIN created = 1..Len(created)
    BY <1>5 DEF TableInv
  <2> QED BY <2>1, <1>5
<1>7. {j \in Keys : table'[j].status # "none"}
        = {j \in Keys : table[j].status # "none"} \cup {k}
  BY <1>4
<1> QED BY <1>1, <1>3, <1>4, <1>5, <1>6, <1>7 DEF TableInv

LEMMA FinishGrows ==
    ASSUME TableInv, NEW k \in Keys, Promise!Complete(k) \/ Promise!Fail(k),
           created' = created
    PROVE  /\ TableInv'
           /\ table[k].status = "queued" /\ table'[k].status \in Finished
           /\ \A j \in Keys \ {k} : table'[j] = table[j]
<1>1. table[k].status = "queued"
  BY DEF Promise!Complete, Promise!Fail
<1>2. table' \in [Keys -> Row] /\ table'[k].status \in Finished
        /\ \A j \in Keys \ {k} : table'[j] = table[j]
  <2>1. table[k] \in Row
    BY DEF TableInv
  <2>2. CASE Promise!Complete(k)
    <3>1. <<table[k].input, table[k].hash>> \in Outcome
      BY <2>1 DEF Row, Outcome
    <3>2. [table[k] EXCEPT !.status = "completed",
                           !.result = <<table[k].input, table[k].hash>>] \in Row
      BY <2>1, <3>1 DEF Row, Status
    <3>3. table' = [table EXCEPT ![k] = [table[k] EXCEPT
             !.status = "completed", !.result = <<table[k].input, table[k].hash>>]]
      BY <2>2 DEF Promise!Complete, TableInv
    <3> QED BY <2>1, <3>2, <3>3 DEF TableInv, Row, Finished
  <2>3. CASE Promise!Fail(k)
    BY <2>1, <2>3 DEF Promise!Fail, TableInv, Row, Status, Finished
  <2> QED BY <2>2, <2>3
<1>3. {j \in Keys : table'[j].status # "none"} = {j \in Keys : table[j].status # "none"}
  BY <1>1, <1>2 DEF Finished
<1> QED BY <1>1, <1>2, <1>3 DEF TableInv

LEMMA RunExistsInTable ==
    ASSUME TableInv, NEW id, RunExists(id)
    PROVE  id \in Keys /\ table[id].status \in Status
<1>1. id \in {k \in Keys : table[k].status # "none"}
  BY DEF TableInv, RunExists
<1> QED BY <1>1 DEF TableInv, Row

\* Runs only move on, so that what was true of one remains "queued" or its outcome.
LEMMA ViewSurvives ==
    ASSUME TableInv, PageInv, ViewInv, NEW k \in Keys,
           table[k].status \in {"none", "queued"}, table'[k].status \in Status,
           \A j \in Keys \ {k} : table'[j] = table[j],
           UNCHANGED <<selected, current, load, clicked>>
    PROVE  ViewInv'
<1>2. ASSUME NEW c \in clicked'
      PROVE  /\ c \in [id : Keys, status : Status]
             /\ c.status \in {"queued", table'[c.id].status}
             /\ table'[c.id].status \in Status
  <2>1. /\ c.id \in Keys /\ c \in [id : Keys, status : Status]
        /\ c.status \in {"queued", table[c.id].status}
        /\ table[c.id].status \in Status
    BY DEF ViewInv
  <2> QED BY <2>1 DEF Status
<1>3. ASSUME load' # NoLoad PROVE load'.answer \in {"none", "queued", table'[load'.id].status}
  <2>1. load.id \in Keys /\ load.answer \in {"none", "queued", table[load.id].status}
    BY <1>3 DEF PageInv, ViewInv
  <2> QED BY <2>1
<1>4. ASSUME current' # NoView
      PROVE  current'.id = selected' /\ current'.status \in {"queued", table'[selected'].status}
  <2>1. current.id \in Keys /\ current.status \in Status /\ current.id = selected
          /\ current.status \in {"queued", table[selected].status}
    BY <1>4 DEF PageInv, ViewInv, ShownIsSelected
  <2> QED BY <2>1 DEF Status
<1> QED BY <1>2, <1>3, <1>4 DEF ViewInv, ShownIsSelected

-----------------------------------------------------------------------------
LEMMA InitInv ==
    ASSUME WebLabAssumption, Init
    PROVE  Inv
<1>1. TableInv
  BY SMT DEF Init, Promise!Init, Promise!NoResult, TableInv, Row, Outcome, Status
<1>2. PageInv
  BY DEF Init, PageInv
<1>3. KeyInv
  BY <1>1 DEF Init, Promise!Init, KeyInv, WebLabAssumption
<1>4. ViewInv
  BY DEF Init, ViewInv, ShownIsSelected
<1> QED BY <1>1, <1>2, <1>3, <1>4 DEF Inv

LEMMA ServePostInv ==
    ASSUME WebLabAssumption, Inv, ServePost
    PROVE  Inv'
<1> USE DEF Inv
<1>1. PICK r \in wire :
        LET k == r[1]  input == NormalizeExperiment(r[2]) IN
        /\ wire' = wire \ {r}
        /\ \/ /\ input # Refused
              /\ \/ Insert(k, input)
                 \/ table[k].input = input /\ UNCHANGED runsTable
              /\ post' = IF r = <<post.key, post.form>>
                         THEN [post EXCEPT !.accepted = TRUE] ELSE post
           \/ UNCHANGED <<runsTable, post>>
  BY DEF ServePost
<1> DEFINE k == r[1]
           input == NormalizeExperiment(r[2])
<1>2. k \in Keys /\ r[2] \in Forms /\ r = <<k, r[2]>>
  BY DEF PageInv
<1>3. UNCHANGED <<view, pendingKey, fate, requests>> /\ wire' \subseteq wire
  BY <1>1 DEF ServePost
<1>4. PageInv'
  <2>1. post' = post \/ (/\ r = <<post.key, post.form>>
                         /\ post' = [post EXCEPT !.accepted = TRUE])
    BY <1>1
  <2>2. CASE r = <<post.key, post.form>> /\ post' = [post EXCEPT !.accepted = TRUE]
    <3>1. post # NoPost
      BY <2>2, <1>2 DEF NoPost, WebLabAssumption
    <3>2. post' \in [key : Keys, form : Forms, accepted : BOOLEAN] /\ post'.key = post.key
      BY <2>2, <3>1 DEF PageInv
    <3> QED BY <3>1, <3>2, <1>3 DEF PageInv, view, requests
  <2> QED BY <2>1, <2>2, <1>3 DEF PageInv, view, requests
<1>5. CASE UNCHANGED runsTable
  BY <1>3, <1>4, <1>5 DEF runsTable, view, requests, TableInv, KeyInv, ViewInv, ShownIsSelected
<1>6. CASE input # Refused /\ Insert(k, input)
  <2>1. input \in Inputs
    BY <1>2, <1>6 DEF Inputs
  <2>2. /\ TableInv' /\ table[k].status = "none" /\ table'[k].status = "queued"
        /\ \A j \in Keys \ {k} : table'[j] = table[j]
    BY <1>2, <1>6, <2>1, InsertGrows
  <2>3. ViewInv'
    <3>1. UNCHANGED <<selected, current, load, clicked>>
      BY <1>3 DEF view, requests
    <3>2. table'[k].status \in Status /\ table[k].status \in {"none", "queued"}
      BY <2>2 DEF Status
    <3> QED BY ONLY <1>2, <2>2, <3>1, <3>2, ViewSurvives, Inv DEF Inv
  <2>4. KeyInv'
    <3>1. fate[k] # "unused"
      BY <1>1, <1>2 DEF KeyInv
    <3> QED BY <3>1, <2>2, <1>3 DEF KeyInv
  <2> QED BY <2>2, <2>3, <2>4, <1>4
<1> QED BY <1>1, <1>5, <1>6 DEF runsTable

LEMMA OtherCallerInv ==
    ASSUME WebLabAssumption, Inv, OtherCaller
    PROVE  Inv'
<1> USE DEF Inv
<1>1. PICK k \in Keys, e \in Forms :
        /\ fate[k] = "unused"
        /\ NormalizeExperiment(e) # Refused
        /\ Insert(k, NormalizeExperiment(e))
        /\ fate' = [fate EXCEPT ![k] = "settled"]
  BY DEF OtherCaller
<1>2. UNCHANGED <<view, pendingKey, post, wire, requests>>
  BY DEF OtherCaller
<1>3. NormalizeExperiment(e) \in Inputs
  BY <1>1 DEF Inputs
<1>4. /\ TableInv' /\ table[k].status = "none" /\ table'[k].status = "queued"
      /\ \A j \in Keys \ {k} : table'[j] = table[j]
  BY <1>1, <1>3, InsertGrows
<1>5. PageInv'
  BY <1>1, <1>2 DEF PageInv, view, requests
<1>6. KeyInv'
  <2>1. \A r \in wire : r[1] # k /\ r[1] \in Keys
    BY <1>1 DEF KeyInv, PageInv
  <2>2. \A j \in Keys \ {k} : fate'[j] = fate[j]
    BY <1>1 DEF PageInv
  <2>3. fate'[k] = "settled" /\ k # pendingKey
    BY <1>1 DEF PageInv, KeyInv
  <2> QED BY <2>1, <2>2, <2>3, <1>2, <1>4 DEF KeyInv
<1>7. ViewInv'
  <2>1. UNCHANGED <<selected, current, load, clicked>>
    BY <1>2 DEF view, requests
  <2>2. table'[k].status \in Status /\ table[k].status \in {"none", "queued"}
    BY <1>4 DEF Status
  <2> QED BY ONLY <1>4, <2>1, <2>2, ViewSurvives, Inv DEF Inv
<1> QED BY <1>4, <1>5, <1>6, <1>7

LEMMA FinishInv ==
    ASSUME Inv, Finish
    PROVE  Inv'
<1> USE DEF Inv
<1>1. PICK k \in Keys : Promise!Complete(k) \/ Promise!Fail(k)
  BY DEF Finish
<1>2. UNCHANGED <<created, view, submission, requests>>
  BY DEF Finish
<1>3. /\ TableInv' /\ table[k].status = "queued" /\ table'[k].status \in Finished
      /\ \A j \in Keys \ {k} : table'[j] = table[j]
  BY <1>1, <1>2, FinishGrows
<1>4. PageInv'
  BY <1>2 DEF PageInv, view, submission, requests
<1>5. KeyInv'
  BY <1>2, <1>3 DEF KeyInv, submission
<1>6. ViewInv'
  <2>1. UNCHANGED <<selected, current, load, clicked>>
    BY <1>2 DEF view, requests
  <2>2. table'[k].status \in Status /\ table[k].status \in {"none", "queued"}
    BY <1>3 DEF Finished, Status
  <2> QED BY ONLY <1>3, <2>1, <2>2, ViewSurvives, Inv DEF Inv
<1> QED BY <1>3, <1>4, <1>5, <1>6

LEMMA SubmitInv ==
    ASSUME WebLabAssumption, Inv, NEW e \in Forms, Submit(e)
    PROVE  Inv'
<1> USE DEF Inv
<1>1. PICK k \in Keys :
        /\ IF pendingKey # None THEN k = pendingKey ELSE fate[k] = "unused"
        /\ pendingKey' = k
        /\ post' = [key |-> k, form |-> e, accepted |-> FALSE]
        /\ wire' = wire \cup {<<k, e>>}
        /\ fate' = [fate EXCEPT ![k] = "drawn"]
  BY DEF Submit
<1>2. UNCHANGED <<runsTable, view, requests>>
  BY DEF Submit
<1>3. TableInv' /\ ViewInv'
  BY <1>2 DEF TableInv, ViewInv, ShownIsSelected, runsTable, view, requests
<1>4. PageInv'
  BY <1>1, <1>2 DEF PageInv, view, requests
<1>5. KeyInv'
  <2>1. \A j \in Keys \ {k} : fate'[j] = fate[j] /\ fate[j] # "drawn"
    BY <1>1 DEF PageInv, KeyInv, WebLabAssumption
  <2>2. fate'[k] = "drawn" /\ pendingKey' = k
    BY <1>1 DEF PageInv
  <2>3. \A r \in wire' : r[1] = k \/ (r \in wire /\ r[1] \in Keys \ {k})
    BY <1>1 DEF PageInv
  <2> QED BY <2>1, <2>2, <2>3, <1>2 DEF KeyInv, runsTable
<1> QED BY <1>3, <1>4, <1>5

LEMMA PostEndsInv ==
    ASSUME WebLabAssumption, Inv, PostAccepted \/ PostFails
    PROVE  Inv'
<1> USE DEF Inv
<1>1. CASE PostAccepted
  <2>1. post.key \in Keys /\ post.key = pendingKey
    BY <1>1 DEF PostAccepted, PageInv, NoPost
  <2>2. TableInv'
    BY <1>1 DEF PostAccepted, TableInv, runsTable
  <2>3. PageInv'
    BY <1>1, <2>1 DEF PostAccepted, SelectRun, PageInv, requests
  <2>4. KeyInv'
    <3>1. /\ fate'[post.key] = "settled" /\ pendingKey' = None
          /\ \A j \in Keys \ {post.key} : fate'[j] = fate[j] /\ fate[j] # "drawn"
      BY <1>1, <2>1 DEF PostAccepted, PageInv, KeyInv
    <3> QED BY <1>1, <2>1, <3>1 DEF PostAccepted, KeyInv, PageInv, WebLabAssumption,
                                    runsTable
  <2>5. ViewInv'
    BY <1>1 DEF PostAccepted, SelectRun, ViewInv, ShownIsSelected, runsTable, requests
  <2> QED BY <2>2, <2>3, <2>4, <2>5
<1>2. CASE PostFails
  BY <1>2 DEF PostFails, KeyAfterError, TableInv, PageInv, KeyInv, ViewInv,
              ShownIsSelected, runsTable, view, requests
<1> QED BY <1>1, <1>2

LEMMA RefreshInv ==
    ASSUME WebLabAssumption, Inv, Refresh
    PROVE  Inv'
<1> USE DEF Inv
<1> DEFINE id == IF selected = None THEN Newest ELSE selected
<1>1. id \in Keys
  <2>1. selected = None => created # <<>>
    BY DEF Refresh
  <2>2. created # <<>> => created[Len(created)] \in Keys
    BY DEF TableInv
  <2> QED BY <2>1, <2>2 DEF Newest, PageInv
<1>2. /\ busy' = TRUE /\ load' = [id |-> id, answer |-> "none"]
      /\ IF selected = None THEN selected' = id /\ current' = NoView
         ELSE UNCHANGED <<selected, current>>
      /\ UNCHANGED <<runsTable, submission, clicked>>
  BY DEF Refresh, SelectRun
<1>3. TableInv' /\ KeyInv'
  BY <1>2 DEF TableInv, KeyInv, runsTable, submission
<1>4. PageInv'
  BY <1>1, <1>2 DEF PageInv, submission
<1>5. ViewInv'
  BY <1>2 DEF ViewInv, ShownIsSelected, runsTable
<1> QED BY <1>3, <1>4, <1>5

LEMMA LoadInv ==
    ASSUME WebLabAssumption, Inv, ServeLoad \/ LoadArrives \/ LoadFails
    PROVE  Inv'
<1> USE DEF Inv
<1>1. TableInv' /\ KeyInv'
  BY DEF ServeLoad, LoadArrives, LoadFails, TableInv, KeyInv, runsTable, submission
<1>2. CASE ServeLoad
  <2>1. load.id \in Keys /\ table[load.id].status \in Status
    BY <1>2, RunExistsInTable DEF ServeLoad
  <2>2. load' \in [id : Keys, answer : Status \cup {"none"}]
          /\ load'.id = load.id /\ load'.answer = table[load.id].status /\ busy
    BY <1>2, <2>1 DEF ServeLoad, PageInv
  <2>3. PageInv'
    BY <1>2, <2>2 DEF ServeLoad, PageInv, view, submission
  <2>4. ViewInv'
    BY <1>2, <2>2 DEF ServeLoad, ViewInv, ShownIsSelected, runsTable, view
  <2> QED BY <1>1, <2>3, <2>4
<1>3. CASE LoadArrives
  <2>1. load.id \in Keys /\ load.answer \in {"queued", table[load.id].status}
          /\ load.answer \in Status
    BY <1>3 DEF LoadArrives, NoLoad, PageInv, ViewInv
  <2>2. \/ selected = load.id /\ current' = [id |-> load.id, status |-> load.answer]
        \/ current' = current
    BY <1>3 DEF LoadArrives, Show, StillSelected
  <2>3. /\ load' = NoLoad /\ busy' = FALSE
        /\ UNCHANGED <<runsTable, selected, submission, clicked>>
    BY <1>3 DEF LoadArrives
  <2>4. current' = NoView \/ (current'.id \in Keys /\ current'.status \in Status)
    <3>1. CASE current' = [id |-> load.id, status |-> load.answer]
      <4>1. current'.id = load.id /\ current'.status = load.answer
        BY <3>1
      <4> QED BY <4>1, <2>1
    <3>2. CASE current' = current
      BY <3>2 DEF PageInv
    <3> QED BY <2>2, <3>1, <3>2
  <2>5. PageInv'
    BY <2>3, <2>4 DEF PageInv, submission
  <2>6. ViewInv'
    BY <2>1, <2>2, <2>3 DEF ViewInv, ShownIsSelected, runsTable
  <2> QED BY <1>1, <2>5, <2>6
<1>4. CASE LoadFails
  BY <1>1, <1>4 DEF LoadFails, BusyAfterFailure, PageInv, ViewInv, ShownIsSelected,
                    runsTable, view, submission
<1> QED BY <1>2, <1>3, <1>4

LEMMA ClickInv ==
    ASSUME WebLabAssumption, Inv, Click \/ ClickedEnds
    PROVE  Inv'
<1> USE DEF Inv
<1>1. TableInv' /\ KeyInv'
  BY DEF Click, ClickedEnds, TableInv, KeyInv, runsTable, submission
<1>2. CASE Click
  <2>1. PICK id \in Keys :
          /\ RunExists(id) /\ SelectRun(id)
          /\ clicked' = clicked \cup {[id |-> id, status |-> table[id].status]}
    BY <1>2 DEF Click
  <2>2. table[id].status \in Status
    BY <2>1, RunExistsInTable
  <2>3. PageInv'
    BY <1>2, <2>1 DEF Click, SelectRun, PageInv, submission
  <2>4. ViewInv'
    BY <1>2, <2>1, <2>2 DEF Click, SelectRun, ViewInv, ShownIsSelected, runsTable
  <2> QED BY <1>1, <2>3, <2>4
<1>3. CASE ClickedEnds
  <2>1. PICK c \in clicked :
          /\ clicked' = clicked \ {c}
          /\ \/ \E status \in {c.status, table[c.id].status} : Show(c.id, status)
             \/ UNCHANGED current
    BY <1>3 DEF ClickedEnds
  <2>2. /\ c.id \in Keys /\ c.status \in {"queued", table[c.id].status}
        /\ table[c.id].status \in Status
    BY <2>1 DEF ViewInv
  <2>3. \/ /\ selected = c.id
           /\ \E status \in {"queued", table[c.id].status} :
                current' = [id |-> c.id, status |-> status]
        \/ current' = current
    BY <2>1, <2>2 DEF Show, StillSelected
  <2>4. UNCHANGED <<runsTable, selected, submission, busy, load>>
    BY <1>3 DEF ClickedEnds
  <2>5. PageInv'
    <3>1. current' = NoView \/ (current'.id \in Keys /\ current'.status \in Status)
      BY <2>2, <2>3 DEF PageInv, Status
    <3> QED BY <2>4, <3>1 DEF PageInv, submission
  <2>6. ViewInv'
    BY <2>1, <2>2, <2>3, <2>4 DEF ViewInv, ShownIsSelected, runsTable
  <2> QED BY <1>1, <2>5, <2>6
<1> QED BY <1>2, <1>3

LEMMA ReloadInv ==
    ASSUME WebLabAssumption, Inv, Reload
    PROVE  Inv'
<1> USE DEF Inv
<1>1. TableInv' /\ ViewInv'
  BY DEF Reload, TableInv, ViewInv, ShownIsSelected, runsTable
<1>2. PageInv'
  BY DEF Reload, PageInv
<1>3. KeyInv'
  <2>1. \A j \in Keys : fate'[j] = IF j = pendingKey THEN "settled" ELSE fate[j]
    BY DEF Reload
  <2>2. pendingKey' = None /\ UNCHANGED <<table, wire>>
    BY DEF Reload, runsTable
  <2>3. \A r \in wire : r[1] \in Keys
    BY DEF PageInv
  <2> QED BY <2>1, <2>2, <2>3 DEF KeyInv, WebLabAssumption
<1> QED BY <1>1, <1>2, <1>3

LEMMA StutterInv ==
    ASSUME Inv, UNCHANGED vars
    PROVE  Inv'
BY DEF Inv, TableInv, PageInv, KeyInv, ViewInv, ShownIsSelected, vars, runsTable,
       view, submission, requests

LEMMA NextInv ==
    ASSUME WebLabAssumption, Inv, [Next]_vars
    PROVE  Inv'
BY ServePostInv, OtherCallerInv, FinishInv, SubmitInv, PostEndsInv, RefreshInv,
   LoadInv, ClickInv, ReloadInv, StutterInv DEF Next

LEMMA Invariance == Spec => []Inv
<1>1. Init => Inv
  BY InitInv, WebLabAssumption
<1>2. Inv /\ [Next]_vars => Inv'
  BY NextInv, WebLabAssumption
<1> QED BY <1>1, <1>2, PTL DEF Spec

-----------------------------------------------------------------------------
\* The page, its requests and the table are typed, and the order of creation
\* holds exactly the runs.
THEOREM TypeCorrect == Spec => []TypeOK
<1>1. Inv => TypeOK
  <2> SUFFICES ASSUME Inv PROVE TypeOK
    OBVIOUS
  <2>1. DOMAIN table = Keys /\ \A k \in Keys : table[k].status \in Status \cup {"none"}
    BY DEF Inv, TableInv, Row
  <2>2. post # NoPost => post.key = pendingKey /\ post.key \in Keys /\ post.form \in Forms
    BY DEF Inv, PageInv
  <2> QED BY <2>1, <2>2 DEF Inv, TableInv, PageInv, ViewInv, TypeOK
<1> QED BY <1>1, Invariance, PTL

\* One run per submission (RunsAreAccountedFor), for any number of keys, retries,
\* late requests and reloads.
THEOREM OneRunPerSubmission == Spec => []RunsAreAccountedFor
<1>1. Inv => RunsAreAccountedFor
  BY DEF Inv, PageInv, KeyInv, RunsAreAccountedFor
<1> QED BY <1>1, Invariance, PTL

\* The selected run is shown, and no outcome it does not have (ShownIsSelected),
\* for any number of runs and of answers under way.
THEOREM SelectedRunShown == Spec => []ShownIsSelected
<1>1. Inv => ShownIsSelected
  BY DEF Inv, ViewInv
<1> QED BY <1>1, Invariance, PTL

-----------------------------------------------------------------------------
(* Research runs: what a sleeve is worth, and what its decision depends on *)

\* What NormalizeExperiment leaves of an experiment it accepts.
Normal(e) ==
    /\ e.threshold \in Threshold
    /\ \A s \in DOMAIN e.shocks : e.shocks[s] \in Shock

LEMMA NormalizedIsNormal ==
    ASSUME NEW e, NormalizeExperiment(e) # Refused
    PROVE  Normal(NormalizeExperiment(e))
<1> DEFINE x == NormalizeExperiment(e)
<1>1. ValidExperiment(e)
  BY DEF NormalizeExperiment
<1>2. /\ x.threshold = IF e.threshold = 0 THEN 100 ELSE e.threshold
      /\ x.shocks = e.shocks
  BY <1>1 DEF NormalizeExperiment
<1>3. /\ e.threshold \in {0} \cup Threshold
      /\ \A s \in DOMAIN e.shocks : e.shocks[s] \in Shock
  BY <1>1 DEF ValidExperiment
<1>4. 100 \in Threshold
  BY DEF Threshold
<1> HIDE DEF x
<1>. QED
  BY <1>2, <1>3, <1>4 DEF Normal, x

\* A function on the indices of a list is a list of its own.
LEMMA ListOf ==
    ASSUME NEW S, NEW T, NEW s \in Seq(S), NEW f, DOMAIN f = DOMAIN s,
           f = [i \in DOMAIN s |-> f[i]],
           \A i \in DOMAIN s : f[i] \in T
    PROVE  f \in Seq(T) /\ Len(f) = Len(s)
<1>1. Len(s) \in Nat /\ DOMAIN s = 1..Len(s)
  OBVIOUS
<1>2. f \in [1..Len(s) -> T]
  BY <1>1
<1>. QED
  BY <1>1, <1>2

\* The shock changes the prices of the last observation, nothing else.
LEMMA ObservedQuotes ==
    ASSUME NEW fixture \in Fixture, NEW e, Normal(e),
           NEW i \in DOMAIN fixture.observations
    PROVE  LET quotes == fixture.observations[i].quotes
               seen == Observed(fixture, e, i)
           IN /\ seen \in Seq(Quote)
              /\ DOMAIN seen = DOMAIN quotes
              /\ \A j \in DOMAIN quotes : seen[j].symbol = quotes[j].symbol
<1> DEFINE quotes == fixture.observations[i].quotes
           shock(q) == IF q.symbol \in DOMAIN e.shocks THEN e.shocks[q.symbol] ELSE 0
           moved == [j \in DOMAIN quotes |->
                       [quotes[j] EXCEPT !.bid = Shocked(@, shock(quotes[j])),
                                         !.ask = Shocked(@, shock(quotes[j]))]]
<1>1. quotes \in Seq(Quote)
  <2>1. fixture.observations \in Seq(Observation)
    BY DEF Fixture
  <2>2. fixture.observations[i] \in Observation
    BY <2>1
  <2>. QED
    BY <2>2 DEF Observation
<1>2. \A j \in DOMAIN quotes : shock(quotes[j]) \in Int
  <2>1. Shock \subseteq Int
    BY DEF Shock
  <2>2. \A t \in DOMAIN e.shocks : e.shocks[t] \in Int
    BY <2>1 DEF Normal
  <2>. QED
    BY <2>2
<1>3. \A p, b \in Int : Shocked(p, b) \in Int
  BY DEF Shocked
<1> HIDE DEF quotes, shock
<1>4. \A j \in DOMAIN quotes : moved[j] \in Quote /\ moved[j].symbol = quotes[j].symbol
  <2>1. SUFFICES ASSUME NEW j \in DOMAIN quotes
                 PROVE  moved[j] \in Quote /\ moved[j].symbol = quotes[j].symbol
    OBVIOUS
  <2>2. quotes[j] \in Quote
    BY <1>1
  <2>3. Shocked(quotes[j].bid, shock(quotes[j])) \in Int
        /\ Shocked(quotes[j].ask, shock(quotes[j])) \in Int
    BY <1>2, <1>3, <2>2 DEF Quote
  <2>. QED
    BY <2>2, <2>3 DEF Quote
<1>5. moved \in Seq(Quote) /\ DOMAIN moved = DOMAIN quotes
  BY <1>1, <1>4, ListOf, Zenon
<1>6. Observed(fixture, e, i) = IF i < Len(fixture.observations) THEN quotes ELSE moved
  BY DEF Observed, quotes, shock
<1> HIDE DEF moved
<1>. QED
  BY <1>1, <1>4, <1>5, <1>6 DEF quotes

\* A position of a valuable sleeve is marked with the usable quote of its symbol.
LEMMA MarkIsValid ==
    ASSUME NEW s \in Sleeve, NEW quotes \in Seq(Quote), NEW at, NEW maxAge,
           Valuable(s, quotes, at, maxAge), NEW i \in DOMAIN s.positions
    PROVE  LET q == Mark(quotes, s.positions[i].symbol) IN
           /\ q \in Quote
           /\ q.symbol = s.positions[i].symbol
           /\ ValidMark(q, at, maxAge)
<1> DEFINE symbol == s.positions[i].symbol
           j == CHOOSE n \in DOMAIN quotes : quotes[n].symbol = symbol
<1>1. PICK n \in DOMAIN quotes : quotes[n].symbol = symbol /\ ValidMark(quotes[n], at, maxAge)
  BY DEF Valuable
<1>2. j \in DOMAIN quotes /\ quotes[j].symbol = symbol
  BY <1>1
<1>3. \A m, k \in DOMAIN quotes : quotes[m].symbol = quotes[k].symbol => m = k
  BY DEF Valuable
<1> HIDE DEF j
<1>4. j = n
  BY <1>1, <1>2, <1>3
<1>5. quotes[n] \in Quote /\ Mark(quotes, symbol) = quotes[n]
  <2>1. Mark(quotes, symbol) = quotes[j]
    BY DEF Mark, j
  <2>. QED
    BY <1>4, <2>1
<1>. QED
  BY <1>1, <1>5

LEMMA MonotoneProduct ==
    ASSUME NEW u \in Nat, NEW a \in Int, NEW b \in Int, a <= b
    PROVE  u * a <= u * b
<1>1. b - a \in Nat
  OBVIOUS
<1>2. u * (b - a) \in Nat
  BY <1>1
<1>3. u * (b - a) = u * b - u * a
  BY SMT
<1>. QED
  BY <1>2, <1>3

\* The marks of a valuable sleeve.
Marks(s, quotes) == [i \in DOMAIN s.positions |-> Mark(quotes, s.positions[i].symbol)]

\* What a valuable sleeve is worth is an integer, and its liquidation value is at
\* most its equity.
LEMMA WorthIsInteger ==
    ASSUME NEW s \in Sleeve, NEW quotes \in Seq(Quote), NEW at \in Int, NEW maxAge \in Int,
           Valuable(s, quotes, at, maxAge)
    PROVE  LET snap == Snapshot(s, quotes, at) IN
           /\ snap.marketValue \in Int /\ snap.pnl \in Int
           /\ snap.liquidation <= snap.equity
<1> DEFINE held == s.positions
           marks == Marks(s, quotes)
           mids == [i \in DOMAIN held |-> held[i].units * Mid(marks[i])]
           bids == [i \in DOMAIN held |-> held[i].units * marks[i].bid]
           costs == [i \in DOMAIN held |-> held[i].cost]
<1>1. held \in Seq(Position) /\ s.cash \in Int
  BY DEF Sleeve
<1>2. \A i \in DOMAIN held :
        /\ held[i] \in Position /\ held[i].units \in Nat
        /\ marks[i] \in Quote /\ marks[i].bid <= marks[i].ask
  <2>1. SUFFICES ASSUME NEW i \in DOMAIN held
                 PROVE  /\ held[i] \in Position /\ held[i].units \in Nat
                        /\ marks[i] \in Quote /\ marks[i].bid <= marks[i].ask
    OBVIOUS
  <2>2. held[i] \in Position
    BY <1>1
  <2>3. held[i].units \in Nat
    BY <2>2 DEF Valuable, Position
  <2>4. marks[i] = Mark(quotes, held[i].symbol)
    BY DEF Marks
  <2>5. marks[i] \in Quote /\ ValidMark(marks[i], at, maxAge)
    BY <2>4, MarkIsValid
  <2>. QED
    BY <2>2, <2>3, <2>5 DEF ValidMark, Quote
<1> HIDE DEF held, marks
<1>3. \A i \in DOMAIN held :
        /\ held[i].units * Mid(marks[i]) \in Int
        /\ held[i].units * marks[i].bid \in Int
        /\ held[i].units * marks[i].bid <= held[i].units * Mid(marks[i])
        /\ held[i].cost \in Int
  <2>1. SUFFICES ASSUME NEW i \in DOMAIN held
                 PROVE  /\ held[i].units * Mid(marks[i]) \in Int
                        /\ held[i].units * marks[i].bid \in Int
                        /\ held[i].units * marks[i].bid <= held[i].units * Mid(marks[i])
                        /\ held[i].cost \in Int
    OBVIOUS
  <2>2. /\ held[i].units \in Nat /\ held[i].cost \in Int
        /\ marks[i].bid \in Int /\ marks[i].ask \in Int /\ marks[i].bid <= marks[i].ask
    BY <1>2 DEF Position, Quote
  <2>3. Mid(marks[i]) \in Int /\ marks[i].bid <= Mid(marks[i])
    BY <2>2 DEF Mid
  <2>. QED
    BY <2>2, <2>3, MonotoneProduct
<1>4. /\ mids \in Seq(Int) /\ bids \in Seq(Int) /\ costs \in Seq(Int)
      /\ Len(bids) = Len(mids) /\ \A i \in 1..Len(bids) : bids[i] <= mids[i]
  <2>1. DOMAIN mids = DOMAIN held /\ DOMAIN bids = DOMAIN held /\ DOMAIN costs = DOMAIN held
    OBVIOUS
  <2>2. \A i \in DOMAIN held : mids[i] \in Int /\ bids[i] \in Int /\ costs[i] \in Int
                               /\ bids[i] <= mids[i]
    BY <1>3
  <2>3. mids \in Seq(Int) /\ Len(mids) = Len(held)
    <3>1. mids = [i \in DOMAIN held |-> mids[i]]
      OBVIOUS
    <3> HIDE DEF mids, bids, costs
    <3>2. DOMAIN mids = DOMAIN held /\ \A i \in DOMAIN held : mids[i] \in Int
      BY <2>1, <2>2
    <3>. QED
      BY ONLY <1>1, <3>1, <3>2, ListOf
  <2>4. bids \in Seq(Int) /\ Len(bids) = Len(held)
    <3>1. bids = [i \in DOMAIN held |-> bids[i]]
      OBVIOUS
    <3> HIDE DEF mids, bids, costs
    <3>2. DOMAIN bids = DOMAIN held /\ \A i \in DOMAIN held : bids[i] \in Int
      BY <2>1, <2>2
    <3>. QED
      BY ONLY <1>1, <3>1, <3>2, ListOf
  <2>5. costs \in Seq(Int) /\ Len(costs) = Len(held)
    <3>1. costs = [i \in DOMAIN held |-> costs[i]]
      OBVIOUS
    <3> HIDE DEF mids, bids, costs
    <3>2. DOMAIN costs = DOMAIN held /\ \A i \in DOMAIN held : costs[i] \in Int
      BY <2>1, <2>2
    <3>. QED
      BY ONLY <1>1, <3>1, <3>2, ListOf
  <2> HIDE DEF mids, bids, costs
  <2>6. DOMAIN held = 1..Len(bids)
    BY <1>1, <2>4
  <2>7. \A i \in 1..Len(bids) : bids[i] <= mids[i]
    BY <2>2, <2>6
  <2>. QED
    BY <2>3, <2>4, <2>5, <2>7
<1> HIDE DEF mids, bids, costs
<1>5. /\ Total(mids) \in Int /\ Total(bids) \in Int /\ Total(costs) \in Int
      /\ Total(bids) <= Total(mids)
  BY <1>4, TotalIsInteger, TotalIsMonotone
<1>6. /\ Snapshot(s, quotes, at).marketValue = Total(mids)
      /\ Snapshot(s, quotes, at).pnl = Total(mids) - Total(costs)
      /\ Snapshot(s, quotes, at).equity = s.cash + Total(mids)
      /\ Snapshot(s, quotes, at).liquidation = s.cash + Total(bids)
  BY DEF Snapshot, Worth, mids, bids, costs, marks, Marks, held
<1>. QED
  BY <1>1, <1>5, <1>6

\* Experiments with the same shocks observe the same.
LEMMA SameShocksObserveTheSame ==
    ASSUME NEW fixture, NEW e, NEW f, e.shocks = f.shocks, NEW i
    PROVE  Observed(fixture, e, i) = Observed(fixture, f, i)
BY DEF Observed

\* A shock moves no quote of another symbol: both experiments mark it alike.
LEMMA UnshockedMarksAgree ==
    ASSUME NEW fixture \in Fixture, NEW e, NEW f, Normal(e), Normal(f),
           NEW i \in DOMAIN fixture.observations, NEW symbol,
           symbol \notin DOMAIN e.shocks \cup DOMAIN f.shocks,
           \E j \in DOMAIN Observed(fixture, e, i) :
               Observed(fixture, e, i)[j].symbol = symbol
    PROVE  Mark(Observed(fixture, e, i), symbol) = Mark(Observed(fixture, f, i), symbol)
<1> DEFINE quotes == fixture.observations[i].quotes
           Oe == Observed(fixture, e, i)
           Of == Observed(fixture, f, i)
           j == CHOOSE n \in DOMAIN quotes : quotes[n].symbol = symbol
<1>1. /\ DOMAIN Oe = DOMAIN quotes /\ DOMAIN Of = DOMAIN quotes
      /\ \A n \in DOMAIN quotes : Oe[n].symbol = quotes[n].symbol
      /\ \A n \in DOMAIN quotes : Of[n].symbol = quotes[n].symbol
  BY ObservedQuotes
<1>2. j \in DOMAIN quotes /\ quotes[j].symbol = symbol
  BY <1>1
<1>3. Oe[j] = Of[j]
  BY <1>2 DEF Observed
<1> HIDE DEF Oe, Of, quotes
<1>4. /\ (CHOOSE n \in DOMAIN Oe : Oe[n].symbol = symbol) = j
      /\ (CHOOSE n \in DOMAIN Of : Of[n].symbol = symbol) = j
  <2>1. \A n : (n \in DOMAIN Oe /\ Oe[n].symbol = symbol)
                 <=> (n \in DOMAIN quotes /\ quotes[n].symbol = symbol)
    BY <1>1
  <2>2. \A n : (n \in DOMAIN Of /\ Of[n].symbol = symbol)
                 <=> (n \in DOMAIN quotes /\ quotes[n].symbol = symbol)
    BY <1>1
  <2>. QED
    BY <2>1, <2>2
<1>. QED
  BY <1>3, <1>4 DEF Mark, Oe, Of

\* A price that is positive and not crossed under one shock is under any: a shock
\* takes away half of it at most.
LEMMA ShockKeepsOrder ==
    ASSUME NEW bid \in Int, NEW ask \in Int, NEW s \in Shock, NEW t \in Shock,
           Shocked(bid, s) > 0, Shocked(ask, s) >= Shocked(bid, s)
    PROVE  Shocked(bid, t) > 0 /\ Shocked(ask, t) >= Shocked(bid, t)
<1> DEFINE m == bid \div 10000
           n == ask \div 10000
           p == 10000 + s
           q == 10000 + t
<1>1. m \in Int /\ n \in Int /\ p \in Nat /\ q \in Nat /\ p > 0 /\ q > 0
  BY DEF Shock
<1>2. /\ Shocked(bid, s) = p * m /\ Shocked(ask, s) = p * n
      /\ Shocked(bid, t) = q * m /\ Shocked(ask, t) = q * n
  BY <1>1 DEF Shocked
<1> HIDE DEF m, n, p, q
<1>3. m > 0
  <2>1. SUFFICES ASSUME m <= 0 PROVE FALSE
    BY <1>1
  <2>2. p * m <= p * 0
    BY <1>1, <2>1, MonotoneProduct
  <2>. QED
    BY <1>1, <1>2, <2>2
<1>4. m <= n
  <2>1. SUFFICES ASSUME n <= m - 1 PROVE FALSE
    BY <1>1
  <2>2. p * n <= p * (m - 1)
    BY <1>1, <2>1, MonotoneProduct
  <2>3. p * (m - 1) = p * m - p
    BY <1>1
  <2>4. p * m \in Int /\ p * n \in Int
    BY <1>1
  <2>. QED
    BY <1>1, <1>2, <2>2, <2>3, <2>4
<1>5. q * m <= q * n
  BY <1>1, <1>4, MonotoneProduct
<1>6. q * 1 <= q * m
  BY <1>1, <1>3, MonotoneProduct
<1>7. q * m \in Int /\ q * n \in Int /\ q * 1 = q
  BY <1>1
<1>. QED
  BY <1>1, <1>2, <1>5, <1>6, <1>7

\* The shock of an experiment to a symbol.
ShockOf(e, symbol) == IF symbol \in DOMAIN e.shocks THEN e.shocks[symbol] ELSE 0

LEMMA ShockOfIsShock ==
    ASSUME NEW e, Normal(e), NEW symbol
    PROVE  ShockOf(e, symbol) \in Shock
<1>1. 0 \in Shock
  BY DEF Shock
<1>. QED
  BY <1>1 DEF Normal, ShockOf

\* A quote that is usable under one experiment is usable under every other.
LEMMA UsableUnderAny ==
    ASSUME NEW fixture \in Fixture, NEW e, NEW f, Normal(e), Normal(f),
           NEW i \in DOMAIN fixture.observations,
           NEW j \in DOMAIN fixture.observations[i].quotes, NEW at, NEW maxAge,
           ValidMark(Observed(fixture, e, i)[j], at, maxAge)
    PROVE  ValidMark(Observed(fixture, f, i)[j], at, maxAge)
<1> DEFINE quotes == fixture.observations[i].quotes
           b == quotes[j].bid
           a == quotes[j].ask
           s == ShockOf(e, quotes[j].symbol)
           t == ShockOf(f, quotes[j].symbol)
<1>1. CASE i < Len(fixture.observations)
  BY <1>1 DEF Observed
<1>2. CASE ~(i < Len(fixture.observations))
  <2>1. /\ Observed(fixture, e, i)[j] = [quotes[j] EXCEPT !.bid = Shocked(b, s),
                                                           !.ask = Shocked(a, s)]
        /\ Observed(fixture, f, i)[j] = [quotes[j] EXCEPT !.bid = Shocked(b, t),
                                                           !.ask = Shocked(a, t)]
    BY <1>2 DEF Observed, ShockOf
  <2>2. quotes[j] \in Quote
    <3>1. fixture.observations[i] \in Observation
      BY DEF Fixture
    <3>. QED
      BY <3>1 DEF Observation
  <2>3. b \in Int /\ a \in Int /\ s \in Shock /\ t \in Shock
    BY <2>2, ShockOfIsShock DEF Quote
  <2>4. /\ Observed(fixture, e, i)[j].bid = Shocked(b, s)
        /\ Observed(fixture, e, i)[j].ask = Shocked(a, s)
        /\ Observed(fixture, f, i)[j].bid = Shocked(b, t)
        /\ Observed(fixture, f, i)[j].ask = Shocked(a, t)
        /\ Observed(fixture, f, i)[j].currency = Observed(fixture, e, i)[j].currency
        /\ Observed(fixture, f, i)[j].at = Observed(fixture, e, i)[j].at
    BY <2>1, <2>2 DEF Quote
  <2> HIDE DEF b, a, s, t
  <2>5. Shocked(b, t) > 0 /\ Shocked(a, t) >= Shocked(b, t)
    BY <2>3, <2>4, ShockKeepsOrder DEF ValidMark
  <2>. QED
    BY <2>4, <2>5 DEF ValidMark
<1>. QED
  BY <1>1, <1>2

\* A fixture that can be replayed under one experiment can be under every other.
LEMMA ReplayableUnderAny ==
    ASSUME NEW fixture \in Fixture, NEW e, NEW f, Normal(e), Normal(f),
           Replayable(fixture, e)
    PROVE  Replayable(fixture, f)
<1>1. SUFFICES ASSUME NEW i \in DOMAIN fixture.observations,
                      NEW k \in DOMAIN fixture.sleeves
               PROVE  Valuable(fixture.sleeves[k], Observed(fixture, f, i),
                               fixture.observations[i].at, MaxAge)
  BY DEF Replayable
<1> DEFINE s == fixture.sleeves[k]
           at == fixture.observations[i].at
           quotes == fixture.observations[i].quotes
           Oe == Observed(fixture, e, i)
           Of == Observed(fixture, f, i)
<1>2. Valuable(s, Oe, at, MaxAge)
  BY DEF Replayable
<1>3. /\ DOMAIN Oe = DOMAIN quotes /\ DOMAIN Of = DOMAIN quotes
      /\ \A n \in DOMAIN quotes : Of[n].symbol = Oe[n].symbol
  BY ObservedQuotes
<1>4. \A n \in DOMAIN quotes : ValidMark(Oe[n], at, MaxAge) => ValidMark(Of[n], at, MaxAge)
  BY UsableUnderAny
<1> HIDE DEF s, at, quotes, Oe, Of
<1>5. \A m, n \in DOMAIN Of : Of[m].symbol = Of[n].symbol => m = n
  BY <1>2, <1>3 DEF Valuable
<1>6. ASSUME NEW n \in DOMAIN s.positions
      PROVE  \E j \in DOMAIN Of : /\ Of[j].symbol = s.positions[n].symbol
                                  /\ ValidMark(Of[j], at, MaxAge)
  <2>1. PICK j \in DOMAIN Oe : /\ Oe[j].symbol = s.positions[n].symbol
                               /\ ValidMark(Oe[j], at, MaxAge)
    BY <1>2, <1>6 DEF Valuable
  <2>. QED
    BY <1>3, <1>4, <2>1
<1>7. Valuable(s, Of, at, MaxAge)
  BY <1>2, <1>5, <1>6 DEF Valuable
<1>. QED
  BY <1>7 DEF s, at, Of

-----------------------------------------------------------------------------
(* A replay of a fixture that can be valued *)

\* The parts of a fixture.
LEMMA FixtureParts ==
    ASSUME NEW v \in Versions, NEW c \in Cells(v)
    PROVE  LET fixture == Fixtures[v] IN
           /\ fixture \in Fixture
           /\ c[1] \in DOMAIN fixture.observations
           /\ c[2] \in DOMAIN fixture.sleeves
           /\ fixture.sleeves[c[2]] \in Sleeve
           /\ fixture.observations[c[1]].at \in Int
<1>1. Fixtures[v] \in Fixture
  BY WebLabAssumption DEF WebLabAssumption
<1>2. /\ Fixtures[v].sleeves \in Seq(Sleeve)
      /\ Fixtures[v].observations \in Seq(Observation)
  BY <1>1 DEF Fixture
<1>3. c[1] \in DOMAIN Fixtures[v].observations /\ c[2] \in DOMAIN Fixtures[v].sleeves
  BY DEF Cells
<1>4. Fixtures[v].sleeves[c[2]] \in Sleeve /\ Fixtures[v].observations[c[1]] \in Observation
  BY <1>2, <1>3
<1>. QED
  BY <1>1, <1>3, <1>4 DEF Observation

\* The snapshot of a cell.
CellSnapshot(v, e, c) ==
    Snapshot(Fixtures[v].sleeves[c[2]], Observed(Fixtures[v], e, c[1]),
             Fixtures[v].observations[c[1]].at)

LEMMA CellIsSnapshot ==
    ASSUME NEW v \in Versions, NEW c \in Cells(v), NEW e
    PROVE  Snapshots(v, e)[c[1]][c[2]] = CellSnapshot(v, e, c)
BY FixtureParts DEF Snapshots, ReplayExperiment, CellSnapshot

LEMMA CellDecision ==
    ASSUME NEW v \in Versions, NEW c \in Cells(v), NEW e
    PROVE  Decisions(v, e)[c[1]][c[2]] =
             IF Reviews(Fixtures[v].sleeves[c[2]].strategy, CellSnapshot(v, e, c), e.threshold)
             THEN "review" ELSE "hold"
BY FixtureParts DEF Decisions, ReplayExperiment, CellSnapshot

\* Every cell of a replay that succeeds is of a sleeve that can be valued.
LEMMA CellIsValuable ==
    ASSUME NEW v \in Versions, NEW c \in Cells(v), NEW e, Normal(e),
           Replayable(Fixtures[v], e)
    PROVE  LET s == Fixtures[v].sleeves[c[2]]
               quotes == Observed(Fixtures[v], e, c[1])
               at == Fixtures[v].observations[c[1]].at
           IN /\ quotes \in Seq(Quote)
              /\ Valuable(s, quotes, at, MaxAge)
<1>1. /\ Fixtures[v] \in Fixture
      /\ c[1] \in DOMAIN Fixtures[v].observations
      /\ c[2] \in DOMAIN Fixtures[v].sleeves
  BY FixtureParts
<1>2. Observed(Fixtures[v], e, c[1]) \in Seq(Quote)
  BY <1>1, ObservedQuotes
<1>. QED
  BY <1>1, <1>2 DEF Replayable

LEMMA EverythingIsMarked ==
    ASSUME NEW v \in Versions, NEW e, Normal(e), Replayable(Fixtures[v], e)
    PROVE  Marked(v, e)
<1>1. SUFFICES ASSUME NEW c \in Cells(v),
                      NEW i \in DOMAIN Fixtures[v].sleeves[c[2]].positions
               PROVE  LET snap == Snapshots(v, e)[c[1]][c[2]]
                          held == Fixtures[v].sleeves[c[2]].positions
                      IN \E j \in DOMAIN snap.quotes :
                           /\ snap.quotes[j].symbol = held[i].symbol
                           /\ snap.at - MaxAge <= snap.quotes[j].at
                           /\ snap.quotes[j].at <= snap.at
  BY DEF Marked
<1> DEFINE s == Fixtures[v].sleeves[c[2]]
           quotes == Observed(Fixtures[v], e, c[1])
           at == Fixtures[v].observations[c[1]].at
           q == Mark(quotes, s.positions[i].symbol)
<1>2. s \in Sleeve /\ at \in Int /\ quotes \in Seq(Quote) /\ Valuable(s, quotes, at, MaxAge)
  BY FixtureParts, CellIsValuable
<1>3. q \in Quote /\ q.symbol = s.positions[i].symbol /\ ValidMark(q, at, MaxAge)
  BY <1>2, MarkIsValid
<1>4. at - MaxAge <= q.at /\ q.at <= at
  <2>1. q.at \in Int /\ at \in Int
    BY <1>2, <1>3 DEF Quote
  <2>2. at - q.at \in 0..MaxAge
    BY <1>3 DEF ValidMark
  <2> HIDE DEF at, q
  <2>. QED
    BY <2>1, <2>2 DEF MaxAge
<1>5. LET snap == Snapshots(v, e)[c[1]][c[2]] IN
      /\ snap.at = at /\ i \in DOMAIN snap.quotes /\ snap.quotes[i] = q
  <2>1. Snapshots(v, e)[c[1]][c[2]] = CellSnapshot(v, e, c)
    BY CellIsSnapshot
  <2>2. /\ CellSnapshot(v, e, c).at = at
        /\ CellSnapshot(v, e, c).quotes
             = [n \in DOMAIN s.positions |-> Mark(quotes, s.positions[n].symbol)]
    BY DEF CellSnapshot, Snapshot, Worth
  <2> HIDE DEF s, quotes, at
  <2>3. i \in DOMAIN s.positions
    BY DEF s
  <2>. QED
    BY <2>1, <2>2, <2>3
<1> HIDE DEF s, quotes, at, q
<1>6. s.positions[i].symbol = Fixtures[v].sleeves[c[2]].positions[i].symbol
  BY DEF s
<1>. QED
  BY <1>3, <1>4, <1>5, <1>6

LEMMA ScenariosDiffer ==
    ASSUME NEW v \in Versions, NEW e, NEW f, Normal(e), Normal(f),
           Replayable(Fixtures[v], e)
    PROVE  DifferOnlyByScenario(v, e, f)
<1>1. SUFFICES ASSUME NEW c \in Cells(v),
                      \/ c[1] # Len(Fixtures[v].observations)
                      \/ LET held == Fixtures[v].sleeves[c[2]].positions IN
                         \A i \in DOMAIN held :
                             held[i].symbol \notin DOMAIN e.shocks \cup DOMAIN f.shocks
               PROVE  Snapshots(v, e)[c[1]][c[2]] = Snapshots(v, f)[c[1]][c[2]]
  BY DEF DifferOnlyByScenario
<1> DEFINE held == Fixtures[v].sleeves[c[2]].positions
           Oe == Observed(Fixtures[v], e, c[1])
           Of == Observed(Fixtures[v], f, c[1])
<1>2. /\ Fixtures[v] \in Fixture /\ c[1] \in DOMAIN Fixtures[v].observations
      /\ c[2] \in DOMAIN Fixtures[v].sleeves
      /\ Fixtures[v].sleeves[c[2]] \in Sleeve
      /\ Fixtures[v].observations[c[1]].at \in Int
  BY FixtureParts
<1>3. \A i \in DOMAIN held : Mark(Oe, held[i].symbol) = Mark(Of, held[i].symbol)
  <2>1. CASE c[1] # Len(Fixtures[v].observations)
    <3>1. c[1] < Len(Fixtures[v].observations)
      <4>1. Fixtures[v].observations \in Seq(Observation)
        BY <1>2 DEF Fixture
      <4>. QED
        BY <1>2, <2>1, <4>1
    <3>2. Oe = Of
      BY <3>1 DEF Observed
    <3>. QED
      BY <3>2
  <2>2. CASE \A i \in DOMAIN held :
                held[i].symbol \notin DOMAIN e.shocks \cup DOMAIN f.shocks
    <3>1. SUFFICES ASSUME NEW i \in DOMAIN held
                   PROVE  Mark(Oe, held[i].symbol) = Mark(Of, held[i].symbol)
      OBVIOUS
    <3>2. Valuable(Fixtures[v].sleeves[c[2]], Oe, Fixtures[v].observations[c[1]].at, MaxAge)
      BY CellIsValuable
    <3>3. \E j \in DOMAIN Oe : Oe[j].symbol = held[i].symbol
      BY <3>2 DEF Valuable
    <3>4. held[i].symbol \notin DOMAIN e.shocks \cup DOMAIN f.shocks
      BY <2>2
    <3> HIDE DEF held
    <3>. QED
      BY <1>2, <3>3, <3>4, UnshockedMarksAgree
  <2>. QED
    BY <1>1, <2>1, <2>2
<1>4. [i \in DOMAIN held |-> Mark(Oe, held[i].symbol)]
        = [i \in DOMAIN held |-> Mark(Of, held[i].symbol)]
  BY <1>3
<1>5. CellSnapshot(v, e, c) = CellSnapshot(v, f, c)
  BY <1>4 DEF CellSnapshot, Snapshot
<1>. QED
  BY <1>5, CellIsSnapshot

\* The threshold is compared with a share of the cost basis: the lower the share,
\* the more moves reach it.
LEMMA LowerThreshold ==
    ASSUME NEW strategy, NEW snap, snap.marketValue \in Int, snap.pnl \in Int,
           NEW low \in Int, NEW high \in Int, low <= high, Reviews(strategy, snap, high)
    PROVE  Reviews(strategy, snap, low)
<1> DEFINE basis == snap.marketValue - snap.pnl
           share == basis \div 10000
<1>1. strategy = "review-move-v1" /\ basis > 0 /\ Abs(snap.pnl) >= share * high
  BY DEF Reviews
<1>2. share \in Nat
  BY <1>1
<1>3. share * low <= share * high /\ share * low \in Int /\ share * high \in Int
  BY <1>2, MonotoneProduct
<1>4. Abs(snap.pnl) \in Int
  BY DEF Abs
<1> HIDE DEF share
<1>5. Abs(snap.pnl) >= share * low
  BY <1>1, <1>3, <1>4
<1>. QED
  BY <1>1, <1>5 DEF Reviews, share

LEMMA ThresholdsOrder ==
    ASSUME NEW v \in Versions, NEW e, NEW f, Normal(e), Normal(f),
           Replayable(Fixtures[v], e)
    PROVE  LowerThresholdReviewsMore(v, e, f) /\ LowerThresholdReviewsMore(v, f, e)
<1>1. SUFFICES ASSUME NEW a, NEW b, {a, b} = {e, f}, a.shocks = b.shocks,
                      a.threshold <= b.threshold, NEW c \in Cells(v),
                      Decisions(v, b)[c[1]][c[2]] = "review"
               PROVE  Decisions(v, a)[c[1]][c[2]] = "review"
  BY DEF LowerThresholdReviewsMore
<1>2. Normal(a) /\ Normal(b) /\ a.threshold \in Int /\ b.threshold \in Int
  <2>1. Normal(a) /\ Normal(b)
    BY <1>1
  <2>2. Threshold \subseteq Int
    BY DEF Threshold
  <2>. QED
    BY <2>1, <2>2 DEF Normal
<1>3. CellSnapshot(v, a, c) = CellSnapshot(v, e, c)
        /\ CellSnapshot(v, b, c) = CellSnapshot(v, e, c)
  <2>1. a.shocks = e.shocks /\ b.shocks = e.shocks
    BY <1>1
  <2>. QED
    BY <2>1, SameShocksObserveTheSame DEF CellSnapshot
<1>4. CellSnapshot(v, e, c).marketValue \in Int /\ CellSnapshot(v, e, c).pnl \in Int
  BY FixtureParts, CellIsValuable, WorthIsInteger DEF CellSnapshot, MaxAge
<1>5. Reviews(Fixtures[v].sleeves[c[2]].strategy, CellSnapshot(v, e, c), b.threshold)
  BY <1>1, <1>3, CellDecision
<1>6. Reviews(Fixtures[v].sleeves[c[2]].strategy, CellSnapshot(v, e, c), a.threshold)
  BY <1>1, <1>2, <1>4, <1>5, LowerThreshold
<1>. QED
  BY <1>3, <1>6, CellDecision

\* A replay that succeeds marks everything and compares with every other of its dataset.
LEMMA ReplayIsSound ==
    ASSUME NEW v \in Versions, NEW e \in Inputs, Replayable(Fixtures[v], e)
    PROVE  <<v, e>> \in Sound
<1>1. \A x \in NormalForms : Normal(x)
  BY NormalizedIsNormal DEF NormalForms
<1>2. e \in NormalForms
  BY WebLabAssumption DEF WebLabAssumption, Inputs, NormalForms
<1>3. Marked(v, e)
  BY <1>1, <1>2, EverythingIsMarked
<1>4. \A f \in NormalForms : /\ DifferOnlyByScenario(v, e, f)
                             /\ LowerThresholdReviewsMore(v, e, f)
                             /\ LowerThresholdReviewsMore(v, f, e)
  BY <1>1, <1>2, ScenariosDiffer, ThresholdsOrder
<1>. QED
  <2>1. <<v, e>> \in Versions \X NormalForms /\ <<v, e>>[1] = v /\ <<v, e>>[2] = e
    BY <1>2
  <2>. QED
    BY <1>3, <1>4, <2>1 DEF Sound

-----------------------------------------------------------------------------
(* Completed runs *)

\* A run has an experiment and a dataset of the program, and when it is completed
\* that dataset could be valued under that experiment.
RunInv ==
    \A k \in Keys : table[k].status # "none" =>
        /\ table[k].input \in Inputs
        /\ table[k].hash \in Versions
        /\ table[k].status = "completed" =>
             Replayable(Fixtures[table[k].hash], table[k].input)

LEMMA InsertedRun ==
    ASSUME TableInv, RunInv, NEW k \in Keys, NEW x, Insert(k, x)
    PROVE  RunInv'
<1>1. PICK y \in Inputs, v \in Versions :
        table' = [table EXCEPT ![k] = [status |-> "queued", input |-> y, hash |-> v,
                                       result |-> Promise!NoResult]]
  BY DEF Insert, Promise!Accept
<1>. QED
  BY <1>1 DEF TableInv, RunInv

LEMMA FinishedRun ==
    ASSUME TableInv, RunInv, Finish
    PROVE  RunInv'
<1>1. PICK k \in Keys :
        \/ /\ Promise!Complete(k)
           /\ Replayable(Fixtures[table[k].hash], table[k].input)
        \/ Promise!Fail(k)
  BY DEF Finish
<1>2. /\ table[k].status = "queued"
      /\ \A j \in Keys \ {k} : table'[j] = table[j]
      /\ table'[k].input = table[k].input /\ table'[k].hash = table[k].hash
      /\ table'[k].status \in {"completed", "failed"}
      /\ table'[k].status = "completed" =>
           Replayable(Fixtures[table[k].hash], table[k].input)
  <2>1. table \in [Keys -> Row] /\ table[k] \in Row
    BY DEF TableInv
  <2>2. CASE Promise!Fail(k)
    BY <2>1, <2>2 DEF Promise!Fail, Row
  <2>3. CASE Promise!Complete(k) /\ Replayable(Fixtures[table[k].hash], table[k].input)
    <3>1. table' = [table EXCEPT ![k] = [table[k] EXCEPT
             !.status = "completed", !.result = <<table[k].input, table[k].hash>>]]
      BY <2>1, <2>3 DEF Promise!Complete
    <3>. QED
      BY <2>1, <2>3, <3>1 DEF Promise!Complete, Row
  <2>. QED
    BY <1>1, <2>2, <2>3
<1>. QED
  BY <1>2 DEF RunInv

LEMMA RunsAreReplayable == Spec => []RunInv
<1>1. Init => RunInv
  BY DEF Init, Promise!Init, RunInv
<1>2. ASSUME Inv, RunInv, [Next]_vars PROVE RunInv'
  <2>1. CASE UNCHANGED table
    BY <1>2, <2>1 DEF RunInv
  <2>2. CASE \E k \in Keys, x \in Inputs : Insert(k, x)
    BY <1>2, <2>2, InsertedRun DEF Inv
  <2>3. CASE Finish
    BY <1>2, <2>3, FinishedRun DEF Inv
  <2>4. \/ UNCHANGED table
        \/ \E k \in Keys, x \in Inputs : Insert(k, x)
        \/ Finish
    <3>1. ASSUME ServePost
          PROVE  UNCHANGED table \/ \E k \in Keys, x \in Inputs : Insert(k, x)
      <4>1. PICK r \in wire :
              \/ /\ NormalizeExperiment(r[2]) # Refused
                 /\ Insert(r[1], NormalizeExperiment(r[2])) \/ UNCHANGED runsTable
              \/ UNCHANGED runsTable
        BY <3>1 DEF ServePost
      <4>2. r[1] \in Keys /\ r[2] \in Forms
        BY <1>2 DEF Inv, PageInv
      <4>. QED
        BY <4>1, <4>2 DEF Inputs, runsTable
    <3>2. ASSUME OtherCaller PROVE \E k \in Keys, x \in Inputs : Insert(k, x)
      BY <3>2 DEF OtherCaller, Inputs
    <3>. QED
      BY <1>2, <3>1, <3>2
         DEF Next, vars, runsTable, Submit, PostFails, PostAccepted, Refresh, ServeLoad,
             LoadArrives, LoadFails, Click, ClickedEnds, Reload
  <2>. QED
    BY <2>1, <2>2, <2>3, <2>4
<1>. QED
  BY <1>1, <1>2, Invariance, PTL DEF Spec

\* A completed run values no sleeve in part, and its difference from any other run of
\* its dataset comes from the prices of the scenario or the review threshold, whatever
\* that dataset's fixture is and the experiments that are submitted.
THEOREM ResultsComparable == Spec => []ResultsAreComparable
<1>1. RunInv => ResultsAreComparable
  BY ReplayIsSound DEF RunInv, ResultsAreComparable
<1>. QED
  BY <1>1, RunsAreReplayable, PTL

\* What a completed run says a sleeve would bring in a sale is never more than what
\* it says the sleeve is worth.
THEOREM LiquidationIsConservative ==
    Spec => [](\A k \in Keys : table[k].status = "completed" =>
                 \A c \in Cells(table[k].hash) :
                   LET snap == Snapshots(table[k].hash, table[k].input)[c[1]][c[2]]
                   IN snap.liquidation <= snap.equity)
<1>1. ASSUME NEW v \in Versions, NEW e \in Inputs, Replayable(Fixtures[v], e),
             NEW c \in Cells(v)
      PROVE  Snapshots(v, e)[c[1]][c[2]].liquidation <= Snapshots(v, e)[c[1]][c[2]].equity
  <2>1. Normal(e)
    BY NormalizedIsNormal DEF Inputs
  <2>2. CellSnapshot(v, e, c).liquidation <= CellSnapshot(v, e, c).equity
    BY <1>1, <2>1, FixtureParts, CellIsValuable, WorthIsInteger DEF CellSnapshot, MaxAge
  <2>. QED
    BY <2>2, CellIsSnapshot
<1>2. RunInv => \A k \in Keys : table[k].status = "completed" =>
                 \A c \in Cells(table[k].hash) :
                   LET snap == Snapshots(table[k].hash, table[k].input)[c[1]][c[2]]
                   IN snap.liquidation <= snap.equity
  BY <1>1 DEF RunInv
<1>. QED
  BY <1>2, RunsAreReplayable, PTL

\* Whether a replay succeeds is decided by the data set alone: once a run on it is
\* completed, no experiment that is accepted can fail on it.
THEOREM DatasetDecides ==
    Spec => [](\A k \in Keys : table[k].status = "completed" =>
                 \A x \in Inputs : Replayable(Fixtures[table[k].hash], x))
<1>1. ASSUME NEW v \in Versions, NEW e \in Inputs, NEW x \in Inputs,
             Replayable(Fixtures[v], e)
      PROVE  Replayable(Fixtures[v], x)
  <2>1. Normal(e) /\ Normal(x)
    BY NormalizedIsNormal DEF Inputs
  <2>2. Fixtures[v] \in Fixture
    BY WebLabAssumption DEF WebLabAssumption
  <2>. QED
    BY <1>1, <2>1, <2>2, ReplayableUnderAny
<1>2. RunInv => \A k \in Keys : table[k].status = "completed" =>
                  \A x \in Inputs : Replayable(Fixtures[table[k].hash], x)
  BY <1>1 DEF RunInv
<1>. QED
  BY <1>2, RunsAreReplayable, PTL
=============================================================================
