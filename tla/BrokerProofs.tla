---------------------------- MODULE BrokerProofs ----------------------------
(***************************************************************************)
(* Proofs about BrokerSync, for any set of keys with any scopes, in any    *)
(* configuration, and any number of restarts.                              *)
(***************************************************************************)
EXTENDS BrokerSync, TLAPS

\* A sync works with a key that is not set aside, and tries the other endpoint
\* only with a key that is confirmed for neither.
CallInv ==
    call # NoCall =>
        /\ call.key \notin conflicted
        /\ call.detect => \A e \in Env : bound[e] # call.key
        /\ ~call.detect => bound[call.env] = call.key

\* The key of a portfolio waiting to be stored still is the Demo key.
FollowUpInv == followUp # NoKey => bound["demo"] = followUp

SyncInv ==
    /\ TypeOK
    /\ OneEnvironmentPerKey
    /\ StatusSpeaksForBoundKey
    /\ CallInv
    /\ FollowUpInv

-----------------------------------------------------------------------------
(* What the operators do *)

\* The other environment is the one other environment.
LEMMA OtherEnv ==
    ASSUME NEW e \in Env
    PROVE  /\ Other(e) \in Env
           /\ Other(e) # e
           /\ Other(Other(e)) = e
           /\ \A f \in Env : f = e \/ f = Other(e)
BY DEF Env, Other

\* A call in progress has a key and an environment.
LEMMA CallType ==
    ASSUME TypeOK, call # NoCall
    PROVE  /\ call \in Call
           /\ call.key \in Keys /\ call.env \in Env /\ call.detect \in BOOLEAN
BY DEF TypeOK, Call

\* Without a call, the key of the call variable is nil.
LEMMA NoCallKey == NoCall.key = NoKey
BY DEF NoCall

\* The invariant holds in the initial states.
LEMMA SyncInit == Init => SyncInv
<1>. SUFFICES ASSUME Init PROVE SyncInv
  OBVIOUS
<1>1. TypeOK
  BY BrokerAssumption DEF Init, TypeOK, Event, MaybeKey, Env
<1>2. OneEnvironmentPerKey /\ StatusSpeaksForBoundKey
  BY DEF Init, OneEnvironmentPerKey, StatusSpeaksForBoundKey, ReportsOk, Env
<1>3. CallInv /\ FollowUpInv
  BY DEF Init, CallInv, FollowUpInv
<1>. QED  BY <1>1, <1>2, <1>3 DEF SyncInv

\* recordSuccess keeps the tables and the bindings typed.
LEMMA RecordTyped ==
    ASSUME TypeOK, NEW k \in Keys, NEW e \in Env, NEW ending \in Ending,
           RecordSuccess(k, e, ending)
    PROVE  /\ bound' \in [Env -> MaybeKey]
           /\ conflicted' \subseteq Keys
           /\ last' \in [Env -> Event]
           /\ imported' \in [Env -> SUBSET Keys]
<1>0. /\ bound \in [Env -> MaybeKey] /\ conflicted \subseteq Keys
      /\ last \in [Env -> Event] /\ imported \in [Env -> SUBSET Keys]
      /\ k \in MaybeKey /\ NoKey \in MaybeKey
  BY DEF TypeOK, MaybeKey
<1>1. \A r \in {"ok", "credential_conflict"}, j \in MaybeKey :
         [result |-> r, key |-> j] \in Event
  BY DEF Event
<1>2. CASE Rival(k, e)
  <2>1. last' \in [Env -> Event]
    BY <1>0, <1>1, <1>2 DEF RecordSuccess, PersistEvent
  <2>. QED  BY <1>0, <1>2, <2>1 DEF RecordSuccess
<1>3. CASE ~Rival(k, e)
  <2>1. last' \in [Env -> Event]
    BY <1>0, <1>1, <1>3 DEF RecordSuccess, PersistSnapshot, PersistEvent
  <2>2. imported' \in [Env -> SUBSET Keys]
    BY <1>0, <1>3 DEF RecordSuccess, PersistSnapshot
  <2>. QED  BY <1>0, <1>3, <2>1, <2>2 DEF RecordSuccess
<1>. QED  BY <1>2, <1>3

\* recordSuccess with a key that is not set aside, and that is confirmed for no
\* environment or for the one that was read, keeps what must hold of bindings.
LEMMA RecordKeeps ==
    ASSUME TypeOK, OneEnvironmentPerKey, StatusSpeaksForBoundKey,
           NEW k \in Keys, NEW e \in Env, NEW ending \in Ending,
           k \notin conflicted, bound[Other(e)] # k,
           RecordSuccess(k, e, ending)
    PROVE  /\ OneEnvironmentPerKey'
           /\ StatusSpeaksForBoundKey'
           /\ \A f \in Env : bound[f] # NoKey => bound'[f] = bound[f]
<1>0. /\ bound \in [Env -> MaybeKey] /\ last \in [Env -> Event]
      /\ k # NoKey /\ Env = {"demo", "real"}
  BY BrokerAssumption DEF TypeOK, Env
<1>1. CASE Rival(k, e)
  <2>1. /\ UNCHANGED bound /\ conflicted' = conflicted \cup {k}
        /\ last' = [last EXCEPT ![e] =
                      IF ending = "failed" THEN @
                      ELSE [result |-> "credential_conflict", key |-> NoKey]]
    BY <1>1 DEF RecordSuccess, PersistEvent
  <2>2. \A f \in Env : bound[f] # k
    BY <1>0, <1>1, OtherEnv DEF Rival
  <2>3. OneEnvironmentPerKey'
    BY <2>1, <2>2 DEF OneEnvironmentPerKey
  <2>4. StatusSpeaksForBoundKey'
    BY <1>0, <2>1 DEF StatusSpeaksForBoundKey, ReportsOk, Event
  <2>. QED  BY <2>1, <2>3, <2>4
<1>2. CASE ~Rival(k, e)
  <2>1. /\ UNCHANGED conflicted
        /\ last' = [last EXCEPT ![e] = IF ending = "failed" THEN @
                                       ELSE [result |-> "ok", key |-> k]]
        /\ bound' = IF ending = "stored" THEN [bound EXCEPT ![e] = k] ELSE bound
        /\ bound[e] \in {NoKey, k}
    BY <1>2 DEF RecordSuccess, PersistSnapshot, PersistEvent, Rival
  <2>2. \A f \in Env : bound[f] # NoKey => bound'[f] = bound[f]
    BY <1>0, <2>1
  <2>3. OneEnvironmentPerKey'
    BY <1>0, <2>1, OtherEnv DEF OneEnvironmentPerKey, Other
  <2>4. StatusSpeaksForBoundKey'
    <3>. SUFFICES ASSUME NEW f \in Env, bound'[f] # NoKey, last'[f].result = "ok"
                  PROVE  last'[f].key = bound'[f]
      BY DEF StatusSpeaksForBoundKey, ReportsOk
    <3>1. CASE f # e
      BY <1>0, <2>1, <3>1 DEF StatusSpeaksForBoundKey, ReportsOk
    <3>2. CASE f = e /\ ending = "failed"
      BY <1>0, <2>1, <3>2 DEF StatusSpeaksForBoundKey, ReportsOk
    <3>3. CASE f = e /\ ending # "failed"
      <4>1. last'[f] = [result |-> "ok", key |-> k]
        BY <1>0, <2>1, <3>3
      <4>2. bound'[f] \in {NoKey, k}
        BY <1>0, <2>1, <3>3
      <4>. QED  BY <4>1, <4>2
    <3>. QED  BY <3>1, <3>2, <3>3
  <2>. QED  BY <2>2, <2>3, <2>4
<1>. QED  BY <1>1, <1>2

\* A failed read changes no binding, and "ok" is nobody's last result after it.
LEMMA FailedReadKeeps ==
    ASSUME TypeOK, StatusSpeaksForBoundKey, NEW e \in Env, NEW ending \in Ending,
           UNCHANGED bound, PersistEvent(e, "unavailable", NoKey, ending)
    PROVE  last' \in [Env -> Event] /\ StatusSpeaksForBoundKey'
<1>1. last' \in [Env -> Event]
  BY DEF TypeOK, PersistEvent, Event, MaybeKey
<1>2. StatusSpeaksForBoundKey'
  BY DEF TypeOK, PersistEvent, StatusSpeaksForBoundKey, ReportsOk, Event
<1>. QED  BY <1>1, <1>2

\* A sync begins with a usable key; with detection only if that key is
\* confirmed nowhere.
LEMMA BeginKeeps ==
    ASSUME SyncInv, NEW k \in Keys, NEW e \in Env, k \notin conflicted,
           bound[Other(e)] # k, BeginSync(k, e), UNCHANGED <<bound, conflicted>>
    PROVE  /\ call' \in Call /\ throttled' \subseteq Keys
           /\ CallInv'
<1>1. /\ call' = [key |-> k, env |-> e, detect |-> bound[e] # k, step |-> "read"]
      /\ throttled' = throttled \cup {k}
  BY DEF BeginSync, Detect
<1>2. call' \in Call /\ throttled' \subseteq Keys
  BY <1>1 DEF Call, SyncInv, TypeOK
<1>3. bound[e] # k => \A f \in Env : bound[f] # k
  BY OtherEnv
<1>4. CallInv'
  BY <1>1, <1>3 DEF CallInv
<1>. QED  BY <1>2, <1>4

\* The key of a sync in progress is not set aside, nor confirmed for the other
\* environment than the one it reads.
LEMMA CalledKeyIsFree ==
    ASSUME SyncInv, NEW k \in Keys, NEW ending \in Ending, ReadSucceeds(k, ending)
    PROVE  /\ call.env \in Env /\ k \notin conflicted /\ bound[Other(call.env)] # k
           /\ RecordSuccess(k, call.env, ending)
<1>1. /\ call # NoCall /\ call.key = k /\ call.env \in Env /\ call.detect \in BOOLEAN
  BY CallType, NoCallKey DEF ReadSucceeds, SyncInv
<1>2. CASE call.detect
  BY <1>1, <1>2, OtherEnv DEF SyncInv, CallInv, ReadSucceeds
<1>3. CASE ~call.detect
  <2>1. bound[call.env] = k
    BY <1>1, <1>3 DEF SyncInv, CallInv
  <2>. QED
    BY <1>1, <2>1 DEF SyncInv, CallInv, OneEnvironmentPerKey, Env, Other, ReadSucceeds
<1>. QED  BY <1>1, <1>2, <1>3

\* Nor is the key of a portfolio that waits to be stored.
LEMMA FollowUpKeyIsFree ==
    ASSUME SyncInv, NEW ending \in Ending, FollowUpStore(ending)
    PROVE  /\ followUp \in Keys /\ "demo" \in Env
           /\ followUp \notin conflicted /\ bound[Other("demo")] # followUp
           /\ RecordSuccess(followUp, "demo", ending)
<1>1. followUp \in Keys /\ bound["demo"] = followUp /\ "demo" \in Env
  BY DEF FollowUpStore, SyncInv, TypeOK, MaybeKey, FollowUpInv, Env
<1>2. followUp \notin conflicted /\ bound[Other("demo")] # followUp
  BY <1>1, BrokerAssumption DEF SyncInv, OneEnvironmentPerKey, Other, Env
<1>. QED  BY <1>1, <1>2 DEF FollowUpStore

-----------------------------------------------------------------------------
(* Every action keeps the invariant *)

\* A read that succeeded.
LEMMA ReadSucceedsKeeps ==
    ASSUME SyncInv, NEW k \in Keys, NEW ending \in Ending, ReadSucceeds(k, ending)
    PROVE  SyncInv' /\ \A f \in Env : bound[f] # NoKey => bound'[f] = bound[f]
<1>1. call.env \in Env /\ k \notin conflicted /\ bound[Other(call.env)] # k
  BY CalledKeyIsFree
<1>3. RecordSuccess(k, call.env, ending)
  BY DEF ReadSucceeds
<1>4. /\ OneEnvironmentPerKey' /\ StatusSpeaksForBoundKey'
      /\ \A f \in Env : bound[f] # NoKey => bound'[f] = bound[f]
  BY <1>1, <1>3, RecordKeeps DEF SyncInv
<1>5. TypeOK'
  BY <1>1, <1>3, RecordTyped DEF SyncInv, TypeOK, ReadSucceeds, outside
<1>6. CallInv'
  BY DEF CallInv, ReadSucceeds
<1>7. FollowUpInv'
  BY <1>4 DEF FollowUpInv, ReadSucceeds, SyncInv, Env
<1>. QED  BY <1>4, <1>5, <1>6, <1>7 DEF SyncInv

\* A denied read, after which the other endpoint may be read.
LEMMA ReadDeniedKeeps ==
    ASSUME SyncInv, NEW k \in Keys, NEW ending \in Ending, ReadDenied(k, ending)
    PROVE  SyncInv'
<1>1. /\ call # NoCall /\ call \in Call /\ call.env \in Env
  BY CallType, NoCallKey DEF ReadDenied, SyncInv
<1>2. last' \in [Env -> Event] /\ StatusSpeaksForBoundKey'
  BY <1>1, FailedReadKeeps DEF ReadDenied, SyncInv, memory
<1>3. call' \in Call \cup {NoCall}
  BY <1>1, OtherEnv DEF ReadDenied, Call
<1>4. TypeOK'
  BY <1>2, <1>3 DEF SyncInv, TypeOK, ReadDenied, outside, memory
<1>5. CallInv'
  <2>1. CASE call' = NoCall
    BY <2>1 DEF CallInv
  <2>2. CASE call' # NoCall
    <3>1. call'.key = call.key /\ call'.detect = call.detect
      BY <1>1, <2>2 DEF ReadDenied, Call
    <3>. QED  BY <1>1, <3>1 DEF SyncInv, CallInv, ReadDenied, memory
  <2>. QED  BY <2>1, <2>2
<1>6. OneEnvironmentPerKey' /\ FollowUpInv'
  BY DEF SyncInv, ReadDenied, OneEnvironmentPerKey, FollowUpInv, memory
<1>. QED  BY <1>2, <1>4, <1>5, <1>6 DEF SyncInv

\* Any other failed read.
LEMMA ReadFailsKeeps ==
    ASSUME SyncInv, NEW ending \in Ending, ReadFails(ending)
    PROVE  SyncInv'
<1>1. call.env \in Env
  BY CallType DEF ReadFails, SyncInv
<1>2. last' \in [Env -> Event] /\ StatusSpeaksForBoundKey'
  BY <1>1, FailedReadKeeps DEF ReadFails, SyncInv, memory
<1>3. TypeOK'
  BY <1>2 DEF SyncInv, TypeOK, ReadFails, outside, memory
<1>4. CallInv' /\ OneEnvironmentPerKey' /\ FollowUpInv'
  BY DEF SyncInv, ReadFails, CallInv, OneEnvironmentPerKey, FollowUpInv, memory
<1>. QED  BY <1>2, <1>3, <1>4 DEF SyncInv

\* What Sync reads: a key that is confirmed for that environment or for none.
LEMMA TargetIsFree ==
    ASSUME SyncInv, NEW e \in Env, NEW t \in SyncTargets(e)
    PROVE  t[1] \in Keys /\ t[2] \in Env /\ bound[Other(t[2])] # t[1]
<1>0. /\ \A f \in Env : bound[f] \in MaybeKey /\ slot[f] \in MaybeKey
      /\ Other(e) \in Env /\ Other(Other(e)) = e
  BY OtherEnv DEF SyncInv, TypeOK, Slots
<1>1. CASE bound[e] # NoKey
  <2>1. t = <<bound[e], e>>
    BY <1>1 DEF SyncTargets
  <2>2. bound[Other(e)] # bound[e]
    BY <1>1 DEF SyncInv, OneEnvironmentPerKey, Env, Other
  <2>. QED  BY <1>0, <1>1, <2>1, <2>2 DEF MaybeKey
<1>2. CASE bound[e] = NoKey /\ OwnCandidate(e)
  <2>1. t = <<slot[e], e>>
    BY <1>2 DEF SyncTargets
  <2>. QED  BY <1>0, <1>2, <2>1 DEF OwnCandidate, Usable, MaybeKey
<1>3. CASE bound[e] = NoKey /\ ~OwnCandidate(e)
  <2>1. OtherCandidate(e) /\ t = <<slot[Other(e)], Other(e)>>
    BY <1>3 DEF SyncTargets
  <2>2. slot[Other(e)] # NoKey
    BY <2>1 DEF OtherCandidate, Usable
  <2>. QED  BY <1>0, <1>3, <2>1, <2>2 DEF MaybeKey
<1>. QED  BY <1>1, <1>2, <1>3

\* A sync an operator asks for.
LEMMA SyncKeeps ==
    ASSUME SyncInv, NEW e \in Env, Sync(e)
    PROVE  SyncInv'
<1>1. PICK t \in SyncTargets(e) : /\ t[1] \notin conflicted
                                  /\ BeginSync(t[1], t[2])
  BY DEF Sync
<1>2. t[1] \in Keys /\ t[2] \in Env /\ bound[Other(t[2])] # t[1]
  BY TargetIsFree
<1>3. call' \in Call /\ throttled' \subseteq Keys /\ CallInv'
  BY <1>1, <1>2, BeginKeeps DEF Sync
<1>4. TypeOK'
  BY <1>3 DEF SyncInv, TypeOK, Sync, tables, outside
<1>5. OneEnvironmentPerKey' /\ StatusSpeaksForBoundKey' /\ FollowUpInv'
  BY DEF SyncInv, Sync, OneEnvironmentPerKey, StatusSpeaksForBoundKey, ReportsOk,
         FollowUpInv, tables
<1>. QED  BY <1>3, <1>4, <1>5 DEF SyncInv

\* One slot of the background round.
LEMMA RoundKeeps ==
    ASSUME SyncInv, RoundSlot
    PROVE  SyncInv'
<1>0. round \in Env /\ \A f \in Env : slot[f] \in MaybeKey
  BY DEF RoundSlot, SyncInv, TypeOK, Slots
<1>1. /\ call' \in Call \cup {NoCall} /\ throttled' \subseteq Keys
      /\ CallInv'
  <2>1. CASE Usable(slot[round]) /\ slot[round] \notin throttled
    <3>. DEFINE k == slot[round]
                p == Preferred(round)
    <3>1. BeginSync(k, p) /\ UNCHANGED <<bound, conflicted>>
      BY <2>1 DEF RoundSlot
    <3>2. k \in Keys /\ k \notin conflicted
      BY <1>0, <2>1 DEF Usable, MaybeKey
    <3>3. p \in Env /\ bound[Other(p)] # k
      <4>1. CASE bound[Other(round)] = k
        <5>1. p = Other(round) /\ Other(p) = round
          BY <1>0, <4>1, OtherEnv DEF Preferred
        <5>2. bound[round] # k
          BY <1>0, <3>2, <4>1, BrokerAssumption
          DEF SyncInv, OneEnvironmentPerKey, Env, Other
        <5>. QED  BY <1>0, <5>1, <5>2, OtherEnv
      <4>2. CASE bound[Other(round)] # k
        BY <1>0, <4>2 DEF Preferred
      <4>. QED  BY <4>1, <4>2
    <3>4. call' \in Call /\ throttled' \subseteq Keys /\ CallInv'
      <4>. HIDE DEF k, p
      <4>. QED  BY <3>1, <3>2, <3>3, BeginKeeps
    <3>. QED  BY <3>4
  <2>2. CASE ~(Usable(slot[round]) /\ slot[round] \notin throttled)
    BY <2>2 DEF RoundSlot, SyncInv, TypeOK, CallInv
  <2>. QED  BY <2>1, <2>2
<1>2. TypeOK'
  BY <1>1 DEF SyncInv, TypeOK, RoundSlot, tables, outside, Env
<1>3. OneEnvironmentPerKey' /\ StatusSpeaksForBoundKey' /\ FollowUpInv'
  BY DEF SyncInv, RoundSlot, OneEnvironmentPerKey, StatusSpeaksForBoundKey,
         ReportsOk, FollowUpInv, tables
<1>. QED  BY <1>1, <1>2, <1>3 DEF SyncInv

\* The portfolio read after an order is stored.
LEMMA FollowUpStoreKeeps ==
    ASSUME SyncInv, NEW ending \in Ending, FollowUpStore(ending)
    PROVE  SyncInv' /\ \A f \in Env : bound[f] # NoKey => bound'[f] = bound[f]
<1>1. /\ followUp \in Keys /\ "demo" \in Env
      /\ followUp \notin conflicted /\ bound[Other("demo")] # followUp
      /\ RecordSuccess(followUp, "demo", ending)
  BY FollowUpKeyIsFree
<1>4. /\ OneEnvironmentPerKey' /\ StatusSpeaksForBoundKey'
      /\ \A f \in Env : bound[f] # NoKey => bound'[f] = bound[f]
  BY <1>1, RecordKeeps DEF SyncInv
<1>5. TypeOK'
  BY <1>1, RecordTyped DEF SyncInv, TypeOK, FollowUpStore, outside, MaybeKey
<1>6. CallInv' /\ FollowUpInv'
  BY DEF CallInv, FollowUpInv, FollowUpStore
<1>. QED  BY <1>4, <1>5, <1>6 DEF SyncInv

\* The remaining steps change no table, and only a restart changes a binding.
LEMMA OtherStepKeeps ==
    ASSUME SyncInv,
           \/ Tick \/ FollowUpRead \/ Restart \/ UNCHANGED vars
           \/ \E k \in Keys : Unthrottle(k) \/ Revoke(k)
    PROVE  SyncInv'
<1>1. CASE Tick
  BY <1>1 DEF SyncInv, TypeOK, OneEnvironmentPerKey, StatusSpeaksForBoundKey,
         ReportsOk, CallInv, FollowUpInv, Tick, memory, tables, outside, Env
<1>2. CASE FollowUpRead
  BY <1>2 DEF SyncInv, TypeOK, OneEnvironmentPerKey, StatusSpeaksForBoundKey,
         ReportsOk, CallInv, FollowUpInv, FollowUpRead, memory, tables, outside, Env
<1>3. CASE Restart
  BY <1>3 DEF SyncInv, TypeOK, OneEnvironmentPerKey, StatusSpeaksForBoundKey,
         ReportsOk, CallInv, FollowUpInv, Restart, tables, Env, MaybeKey
<1>4. CASE UNCHANGED vars
  BY <1>4 DEF SyncInv, TypeOK, OneEnvironmentPerKey, StatusSpeaksForBoundKey,
         ReportsOk, CallInv, FollowUpInv, vars, memory, tables, outside
<1>5. ASSUME NEW k \in Keys, Unthrottle(k) PROVE SyncInv'
  BY <1>5 DEF SyncInv, TypeOK, OneEnvironmentPerKey, StatusSpeaksForBoundKey,
         ReportsOk, CallInv, FollowUpInv, Unthrottle, tables, outside
<1>6. ASSUME NEW k \in Keys, Revoke(k) PROVE SyncInv'
  BY <1>6 DEF SyncInv, TypeOK, OneEnvironmentPerKey, StatusSpeaksForBoundKey,
         ReportsOk, CallInv, FollowUpInv, Revoke, memory, tables
<1>. QED  BY <1>1, <1>2, <1>3, <1>4, <1>5, <1>6

\* Every step keeps the invariant.
LEMMA SyncStep == ASSUME SyncInv, [Next]_vars PROVE SyncInv'
BY ReadSucceedsKeeps, ReadDeniedKeeps, ReadFailsKeeps, SyncKeeps, RoundKeeps,
   FollowUpStoreKeeps, OtherStepKeeps DEF Next

-----------------------------------------------------------------------------
(* The theorems *)

\* The inductive invariant holds in every reachable state.
THEOREM SyncInvariant == Spec => []SyncInv
BY SyncInit, SyncStep, PTL DEF Spec

\* Every variable keeps its type.
THEOREM BrokerTypeCorrect == Spec => []TypeOK
<1>1. SyncInv => TypeOK
  BY DEF SyncInv
<1>. QED  BY <1>1, SyncInvariant, PTL

\* A key serves one environment at most, and none once it is set aside.
THEOREM KeyServesOneEnvironment == Spec => []OneEnvironmentPerKey
<1>1. SyncInv => OneEnvironmentPerKey
  BY DEF SyncInv
<1>. QED  BY <1>1, SyncInvariant, PTL

\* A confirmed environment that reports "ok" speaks for the key bound to it.
THEOREM StatusIsOfBoundKey == Spec => []StatusSpeaksForBoundKey
<1>1. SyncInv => StatusSpeaksForBoundKey
  BY DEF SyncInv
<1>. QED  BY <1>1, SyncInvariant, PTL

\* recordSuccess binds a key with its portfolio.
LEMMA RecordImports ==
    ASSUME TypeOK, BoundKeyIsImported, NEW k \in Keys, NEW e \in Env,
           NEW ending \in Ending, RecordSuccess(k, e, ending)
    PROVE  BoundKeyIsImported'
<1>0. bound \in [Env -> MaybeKey] /\ imported \in [Env -> SUBSET Keys]
  BY DEF TypeOK
<1>1. CASE Rival(k, e)
  BY <1>1 DEF RecordSuccess, BoundKeyIsImported
<1>2. CASE ~Rival(k, e)
  <2>1. /\ imported' = [imported EXCEPT ![e] = IF ending = "failed" THEN @
                                               ELSE @ \cup {k}]
        /\ bound' = IF ending = "stored" THEN [bound EXCEPT ![e] = k] ELSE bound
    BY <1>2 DEF RecordSuccess, PersistSnapshot
  <2>. QED  BY <1>0, <2>1 DEF BoundKeyIsImported
<1>. QED  BY <1>1, <1>2

\* Every step keeps the bound keys among the imported ones.
LEMMA ImportedStep ==
    ASSUME SyncInv, BoundKeyIsImported, [Next]_vars
    PROVE  BoundKeyIsImported'
<1>1. CASE UNCHANGED <<bound, imported>>
  BY <1>1 DEF BoundKeyIsImported
<1>2. ASSUME NEW k \in Keys, NEW ending \in Ending, ReadSucceeds(k, ending)
      PROVE  BoundKeyIsImported'
  <2>1. call.env \in Env
    BY <1>2, CallType, NoCallKey DEF ReadSucceeds, SyncInv
  <2>. QED  BY <1>2, <2>1, RecordImports DEF ReadSucceeds, SyncInv
<1>3. ASSUME NEW ending \in Ending, FollowUpStore(ending)
      PROVE  BoundKeyIsImported'
  <2>1. followUp \in Keys /\ "demo" \in Env
    BY <1>3 DEF FollowUpStore, SyncInv, TypeOK, MaybeKey, Env
  <2>. QED  BY <1>3, <2>1, RecordImports DEF FollowUpStore, SyncInv
<1>4. CASE Restart
  BY <1>4 DEF Restart, BoundKeyIsImported
<1>5. ASSUME NEW k \in Keys, NEW ending \in Ending, ReadDenied(k, ending)
      PROVE  UNCHANGED <<bound, imported>>
  BY <1>5 DEF ReadDenied, memory
<1>6. ASSUME NEW ending \in Ending, ReadFails(ending)
      PROVE  UNCHANGED <<bound, imported>>
  BY <1>6 DEF ReadFails, memory
<1>7. ASSUME NEW k \in Keys, Unthrottle(k) \/ Revoke(k)
      PROVE  UNCHANGED <<bound, imported>>
  BY <1>7 DEF Unthrottle, Revoke, memory, tables
<1>8. ASSUME NEW f \in Env, Sync(f)
      PROVE  UNCHANGED <<bound, imported>>
  BY <1>8 DEF Sync, tables
<1>9. ASSUME Tick \/ RoundSlot \/ FollowUpRead \/ UNCHANGED vars
      PROVE  UNCHANGED <<bound, imported>>
  BY <1>9 DEF Tick, RoundSlot, FollowUpRead, memory, tables, vars
<1>. QED
  BY <1>1, <1>2, <1>3, <1>4, <1>5, <1>6, <1>7, <1>8, <1>9 DEF Next

\* An environment is confirmed only by a portfolio that is in its history.
THEOREM BoundIsImported == Spec => []BoundKeyIsImported
<1>1. Init => BoundKeyIsImported
  BY DEF Init, BoundKeyIsImported
<1>. QED  BY <1>1, ImportedStep, SyncInvariant, PTL DEF Spec

\* Only a restart takes a key from an environment.
LEMMA StepKeepsBinding ==
    ASSUME SyncInv, [Next]_vars, restarts' = restarts,
           NEW e \in Env, bound[e] # NoKey
    PROVE  bound'[e] = bound[e]
<1>1. CASE UNCHANGED bound
  BY <1>1
<1>2. ASSUME NEW k \in Keys, NEW ending \in Ending, ReadSucceeds(k, ending)
      PROVE  bound'[e] = bound[e]
  BY <1>2, ReadSucceedsKeeps
<1>3. ASSUME NEW ending \in Ending, FollowUpStore(ending)
      PROVE  bound'[e] = bound[e]
  BY <1>3, FollowUpStoreKeeps
<1>4. CASE Restart
  BY <1>4 DEF Restart, SyncInv, TypeOK
<1>5. ASSUME NEW k \in Keys, NEW ending \in Ending, ReadDenied(k, ending)
      PROVE  UNCHANGED bound
  BY <1>5 DEF ReadDenied, memory
<1>6. ASSUME NEW ending \in Ending, ReadFails(ending)
      PROVE  UNCHANGED bound
  BY <1>6 DEF ReadFails, memory
<1>7. ASSUME NEW k \in Keys, Unthrottle(k) \/ Revoke(k)
      PROVE  UNCHANGED bound
  BY <1>7 DEF Unthrottle, Revoke, memory
<1>8. ASSUME NEW f \in Env, Sync(f)
      PROVE  UNCHANGED bound
  BY <1>8 DEF Sync
<1>9. ASSUME Tick \/ RoundSlot \/ FollowUpRead \/ UNCHANGED vars
      PROVE  UNCHANGED bound
  BY <1>9 DEF Tick, RoundSlot, FollowUpRead, memory, vars
<1>. QED  BY <1>1, <1>2, <1>3, <1>4, <1>5, <1>6, <1>7, <1>8, <1>9 DEF Next

\* An environment keeps its key for the life of the process.
THEOREM BindingLasts == Spec => BindingIsForLife
<1>1. ASSUME SyncInv, [Next]_vars
      PROVE  [restarts' = restarts =>
                \A e \in Env : bound[e] # NoKey => bound'[e] = bound[e]]_vars
  BY <1>1, StepKeepsBinding
<1>. QED  BY <1>1, SyncInvariant, PTL DEF Spec, BindingIsForLife

-----------------------------------------------------------------------------
(* BrokerSync implements KeyPromise *)

promised == <<bound, conflicted, imported, Reported>>

\* An event of e changes what is reported of e only.
LEMMA EventReports ==
    ASSUME TypeOK, NEW e \in Env, NEW r \in {"ok", "unavailable", "credential_conflict"},
           NEW k \in MaybeKey, NEW ending \in Ending, PersistEvent(e, r, k, ending)
    PROVE  \/ ending = "failed" /\ UNCHANGED Reported
           \/ Reported' = [Reported EXCEPT ![e] = IF r = "ok" THEN k ELSE NoKey]
<1>0. last \in [Env -> Event]
  BY DEF TypeOK
<1>1. CASE ending = "failed"
  <2>1. last' = last
    BY <1>0, <1>1 DEF PersistEvent
  <2>. QED
    BY <1>1, <2>1 DEF Reported
<1>2. CASE ending # "failed"
  <2>1. last' = [last EXCEPT ![e] = [result |-> r, key |-> k]]
    BY <1>2 DEF PersistEvent
  <2>. QED
    BY <1>0, <2>1 DEF Reported
<1>. QED
  BY <1>1, <1>2

\* A portfolio that was read with a free key is imported, or sets the key aside.
LEMMA RecordRefines ==
    ASSUME TypeOK, NEW k \in Keys, NEW e \in Env, NEW ending \in Ending,
           k \notin conflicted, bound[Other(e)] # k, RecordSuccess(k, e, ending)
    PROVE  Promise!Next \/ UNCHANGED promised
<1>0. /\ bound \in [Env -> MaybeKey] /\ imported \in [Env -> SUBSET Keys]
      /\ k \in MaybeKey /\ NoKey \in MaybeKey /\ k # NoKey
  BY BrokerAssumption DEF TypeOK, MaybeKey
<1>1. \A f \in Env : f # e => bound[f] # k
  BY OtherEnv
<1>2. CASE Rival(k, e)
  <2>1. /\ conflicted' = conflicted \cup {k} /\ UNCHANGED <<bound, imported>>
        /\ PersistEvent(e, "credential_conflict", NoKey, ending)
        /\ bound[e] \notin {NoKey, k}
    BY <1>2 DEF RecordSuccess, Rival
  <2>2. Reported' \in {Reported, [Reported EXCEPT ![e] = NoKey]}
    BY <1>0, <2>1, EventReports
  <2>3. Promise!SetAside(k, e)
    BY <1>1, <2>1, <2>2 DEF Promise!SetAside
  <2>. QED
    BY <2>3 DEF Promise!Next
<1>3. CASE ~Rival(k, e)
  <2>1. /\ PersistEvent(e, "ok", k, ending)
        /\ imported' = [imported EXCEPT ![e] = IF ending = "failed" THEN @
                                               ELSE @ \cup {k}]
        /\ bound' = IF ending = "stored" THEN [bound EXCEPT ![e] = k] ELSE bound
        /\ UNCHANGED conflicted /\ bound[e] \in {NoKey, k}
    BY <1>3 DEF RecordSuccess, PersistSnapshot, Rival
  <2>2. CASE ending = "failed"
    <3>1. UNCHANGED <<bound, conflicted, imported>>
      BY <1>0, <2>1, <2>2
    <3>2. UNCHANGED Reported
      BY <2>1, <2>2 DEF PersistEvent, Reported, TypeOK
    <3>. QED
      BY <3>1, <3>2 DEF promised
  <2>3. CASE ending # "failed"
    <3>1. Reported' = [Reported EXCEPT ![e] = k]
      BY <1>0, <2>1, <2>3, EventReports
    <3>2. Promise!Import(k, e)
      BY <1>1, <2>1, <2>3, <3>1 DEF Promise!Import
    <3>. QED
      BY <3>2 DEF Promise!Next
  <2>. QED
    BY <2>2, <2>3
<1>. QED
  BY <1>2, <1>3

\* A read that failed is reported, or not even that.
LEMMA MissRefines ==
    ASSUME TypeOK, NEW e \in Env, NEW ending \in Ending,
           PersistEvent(e, "unavailable", NoKey, ending),
           UNCHANGED <<bound, conflicted, imported>>
    PROVE  Promise!Next \/ UNCHANGED promised
<1>1. CASE UNCHANGED Reported
  BY <1>1 DEF promised
<1>2. CASE ~UNCHANGED Reported
  <2>1. Reported' = [Reported EXCEPT ![e] = NoKey]
    BY <1>2, EventReports DEF MaybeKey
  <2>2. Promise!Miss(e)
    BY <2>1 DEF Promise!Miss
  <2>. QED
    BY <2>2 DEF Promise!Next
<1>. QED
  BY <1>1, <1>2

\* Every step of the service is a step of the promise or invisible.
LEMMA KeyStepRefines ==
    ASSUME SyncInv, [Next]_vars
    PROVE  Promise!Next \/ UNCHANGED promised
<1>0. TypeOK
  BY DEF SyncInv
<1>1. ASSUME NEW k \in Keys, NEW ending \in Ending, ReadSucceeds(k, ending)
      PROVE  Promise!Next \/ UNCHANGED promised
  BY <1>0, <1>1, CalledKeyIsFree, RecordRefines
<1>2. ASSUME NEW ending \in Ending, FollowUpStore(ending)
      PROVE  Promise!Next \/ UNCHANGED promised
  BY <1>0, <1>2, FollowUpKeyIsFree, RecordRefines
<1>3. ASSUME NEW k \in Keys, NEW ending \in Ending, ReadDenied(k, ending)
      PROVE  Promise!Next \/ UNCHANGED promised
  <2>1. call.env \in Env
    BY <1>0, <1>3, CallType, NoCallKey DEF ReadDenied
  <2>. QED
    BY <1>0, <1>3, <2>1, MissRefines DEF ReadDenied, memory
<1>4. ASSUME NEW ending \in Ending, ReadFails(ending)
      PROVE  Promise!Next \/ UNCHANGED promised
  <2>1. call.env \in Env
    BY <1>0, <1>4, CallType DEF ReadFails
  <2>. QED
    BY <1>0, <1>4, <2>1, MissRefines DEF ReadFails, memory
<1>5. CASE Restart
  <2>1. Promise!Forget
    BY <1>5 DEF Restart, tables, Promise!Forget, Reported
  <2>. QED
    BY <2>1 DEF Promise!Next
<1>6. CASE \/ Tick \/ RoundSlot \/ FollowUpRead \/ UNCHANGED vars
           \/ \E e \in Env : Sync(e)
           \/ \E k \in Keys : Unthrottle(k) \/ Revoke(k)
  BY <1>6 DEF Tick, RoundSlot, FollowUpRead, vars, Sync, Unthrottle, Revoke,
              memory, tables, promised, Reported
<1>. QED
  BY <1>1, <1>2, <1>3, <1>4, <1>5, <1>6 DEF Next

\* The service keeps the promise of KeyPromise, whatever keys are configured, what
\* they may read, and how its reads and transactions end.
THEOREM ServiceKeepsKeyPromise == Spec => KeepsKeyPromise
<1>1. Init => Promise!Init
  BY DEF Init, Promise!Init, Reported
<1>2. SyncInv /\ [Next]_vars => [Promise!Next]_promised
  BY KeyStepRefines
<1>. QED
  BY <1>1, <1>2, SyncInvariant, PTL
     DEF Spec, KeepsKeyPromise, Promise!Spec, promised
=============================================================================
