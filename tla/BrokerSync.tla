----------------------------- MODULE BrokerSync -----------------------------
(***************************************************************************)
(* Which eToro key reads which account (internal/platform/broker.go).      *)
(*                                                                         *)
(* The configuration puts up to two user keys in the slots "demo" and      *)
(* "real", and a slot is only a hint: a key is bound to the environment    *)
(* whose portfolio it has read and stored, is set aside as conflicted when *)
(* another key holds that environment, and both are forgotten when the     *)
(* process restarts.  Syncs, asked for by operators or due in the          *)
(* background round, run one at a time under a mutex that is held over     *)
(* their provider reads; the read that follows a Demo order is made        *)
(* without it.  Every database transaction may fail, or commit without the *)
(* process learning it.                                                    *)
(***************************************************************************)
EXTENDS Naturals

CONSTANTS
    Keys,        \* eToro user keys
    NoKey,       \* nil
    Scopes,      \* the ways the provider may let each key read each endpoint
    MaxRestarts  \* bound on restarts of the process

Env == {"demo", "real"}

ASSUME BrokerAssumption ==
    /\ NoKey \notin Keys
    /\ Scopes \subseteq [Keys -> SUBSET Env]
    /\ MaxRestarts \in Nat

Other(e) == IF e = "real" THEN "demo" ELSE "real"

MaybeKey == Keys \cup {NoKey}

\* What the newest event of an environment says: no event yet, a snapshot, a
\* read that failed (denied, unauthorized, malformed, timed out...), or a second
\* key.  Not in the table: whose snapshot it was.
Event == [result : {"none", "ok", "unavailable", "credential_conflict"},
          key : MaybeKey]

\* How a transaction ends for its caller: committed, rolled back, or committed
\* with the caller getting an error.
Ending == {"stored", "failed", "unheard"}

\* A sync that holds the mutex.
Call == [key : Keys, env : Env, detect : BOOLEAN, step : {"read", "alternate"}]
NoCall == [key |-> NoKey, env |-> "demo", detect |-> FALSE, step |-> "read"]

\* NewBrokerService refuses one user key in both slots.
Slots == {s \in [Env -> MaybeKey] : s["demo"] = s["real"] => s["demo"] = NoKey}

VARIABLES
    slot,       \* the configuration of the running process
    scope,      \* the endpoints the provider lets each key read
    bound,      \* the key confirmed for each environment
    conflicted, \* keys set aside
    throttled,  \* keys tried less than 30 s ago
    last,       \* the newest row of etoro_sync_events for each environment
    imported,   \* the keys whose portfolios are in etoro_snapshots, by environment
    call,       \* the sync in progress
    round,      \* the slot syncConfigured does next, or "none"
    followUp,   \* a key whose Demo portfolio was read after an order, to be stored
    restarts    \* history: restarts so far

memory == <<bound, conflicted, throttled>>
tables == <<last, imported>>
outside == <<slot, scope, restarts>>
vars == <<memory, tables, outside, call, round, followUp>>

TypeOK ==
    /\ slot \in Slots
    /\ scope \in [Keys -> SUBSET Env]
    /\ bound \in [Env -> MaybeKey]
    /\ conflicted \subseteq Keys
    /\ throttled \subseteq Keys
    /\ last \in [Env -> Event]
    /\ imported \in [Env -> SUBSET Keys]
    /\ call \in Call \cup {NoCall}
    /\ round \in Env \cup {"none"}
    /\ followUp \in MaybeKey
    /\ restarts \in Nat

Init ==
    /\ slot \in Slots
    /\ scope \in Scopes
    /\ bound = [e \in Env |-> NoKey]
    /\ conflicted = {}
    /\ throttled = {}
    /\ last = [e \in Env |-> [result |-> "none", key |-> NoKey]]
    /\ imported = [e \in Env |-> {}]
    /\ call = NoCall
    /\ round = "demo"
    /\ followUp = NoKey
    /\ restarts = 0

-----------------------------------------------------------------------------
(* persist and recordSuccess *)

PersistEvent(e, result, k, ending) ==
    last' = [last EXCEPT ![e] = IF ending = "failed" THEN @
                                ELSE [result |-> result, key |-> k]]

PersistSnapshot(k, e, ending) ==
    /\ PersistEvent(e, "ok", k, ending)
    /\ imported' = [imported EXCEPT ![e] = IF ending = "failed" THEN @
                                           ELSE @ \cup {k}]

\* Not the code: the environment goes to whichever key read it last.
NeverRival(k, e) == FALSE

\* Another key holds the environment.
Rival(k, e) == bound[e] \notin {NoKey, k}

\* Not the code: the key is bound whether or not its snapshot was stored.
BindAnyway(k, e, ending) ==
    IF Rival(k, e)
    THEN /\ conflicted' = conflicted \cup {k}
         /\ PersistEvent(e, "credential_conflict", NoKey, ending)
         /\ UNCHANGED <<bound, imported>>
    ELSE /\ PersistSnapshot(k, e, ending)
         /\ bound' = [bound EXCEPT ![e] = k]
         /\ UNCHANGED conflicted

\* A valid portfolio of e was read with k.  The key is bound only after the
\* snapshot and its event were stored; a second key is set aside even when its
\* event could not be stored.
RecordSuccess(k, e, ending) ==
    IF Rival(k, e)
    THEN /\ conflicted' = conflicted \cup {k}
         /\ PersistEvent(e, "credential_conflict", NoKey, ending)
         /\ UNCHANGED <<bound, imported>>
    ELSE /\ PersistSnapshot(k, e, ending)
         /\ bound' = IF ending = "stored" THEN [bound EXCEPT ![e] = k] ELSE bound
         /\ UNCHANGED conflicted

-----------------------------------------------------------------------------
(* syncClient: the mutex is taken, and the reads of one call are its steps *)

\* Not the code: an empty slot is taken for a key.
UsableOrEmpty(k) == k \notin conflicted

Usable(k) == k # NoKey /\ k \notin conflicted

\* Not the code: a denial sends also a bound key to the other endpoint.
AlwaysDetect(k, e) == TRUE

\* Not the code: the condition is turned around.
DetectConfirmed(k, e) == bound[e] = k

\* Only a key that is not confirmed for e may be tried on the other endpoint.
Detect(k, e) == bound[e] # k

BeginSync(k, e) ==
    /\ throttled' = throttled \cup {k}
    /\ call' = [key |-> k, env |-> e, detect |-> Detect(k, e), step |-> "read"]

\* The provider lets the key read the endpoint and the response is valid.
ReadSucceeds(k, ending) ==
    /\ call.key = k
    /\ k # NoKey
    /\ call.env \in scope[k]
    /\ RecordSuccess(k, call.env, ending)
    /\ call' = NoCall
    /\ UNCHANGED <<throttled, outside, round, followUp>>

\* 403 or 404 for a key not confirmed yet: once the event is stored, the other
\* endpoint is read.
ReadDenied(k, ending) ==
    /\ call.key = k
    /\ k # NoKey
    /\ call.step = "read"
    /\ call.detect
    /\ PersistEvent(call.env, "unavailable", NoKey, ending)
    /\ call' = IF ending = "stored"
               THEN [call EXCEPT !.env = Other(@), !.step = "alternate"]
               ELSE NoCall
    /\ UNCHANGED <<memory, imported, outside, round, followUp>>

\* Any other failure, or any failure of a confirmed key or the other endpoint.
ReadFails(ending) ==
    /\ call # NoCall
    /\ PersistEvent(call.env, "unavailable", NoKey, ending)
    /\ call' = NoCall
    /\ UNCHANGED <<memory, imported, outside, round, followUp>>

-----------------------------------------------------------------------------
(* Sync, asked for by an operator *)

\* The key in e's own slot is a candidate for e.
OwnCandidate(e) == Usable(slot[e]) /\ bound[Other(e)] # slot[e]

\* The key in the other slot is not confirmed there and may turn out to be e's.
OtherCandidate(e) == Usable(slot[Other(e)]) /\ bound[Other(e)] # slot[Other(e)]

\* What Sync(e) reads: the key and the endpoint.  Nothing, for lack of a key.
SyncTargets(e) ==
    IF bound[e] # NoKey THEN {<<bound[e], e>>}
    ELSE IF OwnCandidate(e) THEN {<<slot[e], e>>}
    ELSE IF OtherCandidate(e) THEN {<<slot[Other(e)], Other(e)>>}
    ELSE {}

Sync(e) ==
    /\ call = NoCall
    /\ \E t \in SyncTargets(e) :
         /\ t[1] \notin conflicted \cup throttled
         /\ BeginSync(t[1], t[2])
    /\ UNCHANGED <<bound, conflicted, tables, outside, round, followUp>>

-----------------------------------------------------------------------------
(* Run: the background round *)

\* The 30-minute ticker.
Tick ==
    /\ round = "none"
    /\ round' = "demo"
    /\ UNCHANGED <<memory, tables, outside, call, followUp>>

\* The environment syncConfigured prefers for the key in slot s.
Preferred(s) == IF bound[Other(s)] = slot[s] THEN Other(s) ELSE s

\* One slot of syncConfigured; between the slots the mutex is free.
RoundSlot ==
    /\ round # "none"
    /\ call = NoCall
    /\ round' = IF round = "demo" THEN "real" ELSE "none"
    /\ IF Usable(slot[round]) /\ slot[round] \notin throttled
       THEN BeginSync(slot[round], Preferred(round))
       ELSE UNCHANGED <<throttled, call>>
    /\ UNCHANGED <<bound, conflicted, tables, outside, followUp>>

-----------------------------------------------------------------------------
(* syncDemoAfterOrder *)

\* The portfolio is fetched without the mutex, with the key the order used.
FollowUpRead ==
    /\ followUp = NoKey
    /\ bound["demo"] # NoKey
    /\ "demo" \in scope[bound["demo"]]
    /\ followUp' = bound["demo"]
    /\ UNCHANGED <<memory, tables, outside, call, round>>

FollowUpStore(ending) ==
    /\ followUp # NoKey
    /\ call = NoCall
    /\ RecordSuccess(followUp, "demo", ending)
    /\ followUp' = NoKey
    /\ UNCHANGED <<throttled, outside, call, round>>

-----------------------------------------------------------------------------
(* Time, the key's owner, and the host *)

Unthrottle(k) ==
    /\ k \in throttled
    /\ throttled' = throttled \ {k}
    /\ UNCHANGED <<bound, conflicted, tables, outside, call, round, followUp>>

\* The owner revokes a key, or the provider stops accepting it.
Revoke(k) ==
    /\ scope[k] # {}
    /\ scope' = [scope EXCEPT ![k] = {}]
    /\ UNCHANGED <<memory, tables, slot, restarts, call, round, followUp>>

\* The process dies and starts again, perhaps with other private settings.
Restart ==
    /\ restarts < MaxRestarts
    /\ restarts' = restarts + 1
    /\ slot' \in Slots
    /\ bound' = [e \in Env |-> NoKey]
    /\ conflicted' = {}
    /\ throttled' = {}
    /\ call' = NoCall
    /\ round' = "demo"
    /\ followUp' = NoKey
    /\ UNCHANGED <<scope, tables>>

-----------------------------------------------------------------------------
Next ==
    \/ \E ending \in Ending :
         \/ \E k \in Keys : ReadSucceeds(k, ending) \/ ReadDenied(k, ending)
         \/ ReadFails(ending)
         \/ FollowUpStore(ending)
    \/ \E e \in Env : Sync(e)
    \/ Tick
    \/ RoundSlot
    \/ FollowUpRead
    \/ \E k \in Keys : Unthrottle(k) \/ Revoke(k)
    \/ Restart

Spec == Init /\ [][Next]_vars

\* The background round never stops and gets the mutex, every read ends (25 s at
\* most), 30 s pass.  Provider and database do not fail for ever: a key that is
\* tried again and again is answered at last, with a denial where it has no scope.
Fairness ==
    /\ WF_vars(Tick)
    /\ SF_vars(RoundSlot)
    /\ WF_vars(\E ending \in Ending : ReadFails(ending))
    /\ \A k \in Keys :
         /\ WF_vars(Unthrottle(k))
         /\ SF_vars(ReadSucceeds(k, "stored"))
         /\ SF_vars(call.env \notin scope[k] /\ ReadDenied(k, "stored"))

FairSpec == Spec /\ Fairness

-----------------------------------------------------------------------------
(* What must hold *)

\* A key serves one environment at most, and none once it is set aside: Demo
\* orders and Real histories never share a key, whatever reads succeed, fail or
\* are denied in between.
OneEnvironmentPerKey ==
    /\ bound["demo"] = bound["real"] => bound["demo"] = NoKey
    /\ \A e \in Env : bound[e] \notin conflicted

\* What status reports for a confirmed environment, "ok", is about the key that
\* is bound to it now: the Demo order route is never shown as armed on the
\* strength of a read another key made, perhaps before a restart.
ReportsOk(e) == bound[e] # NoKey /\ last[e].result = "ok"

StatusSpeaksForBoundKey ==
    \A e \in Env : ReportsOk(e) => last[e].key = bound[e]

\* An environment is confirmed only by a portfolio that is in its history: a
\* transaction that failed, or whose answer was lost, binds no key.
BoundKeyIsImported ==
    \A e \in Env : bound[e] # NoKey => bound[e] \in imported[e]

\* While the process lives an environment keeps its key: an order reconciled
\* minutes after it was posted is looked up with the key that posted it.
BindingIsForLife ==
    [][restarts' = restarts =>
         \A e \in Env : bound[e] # NoKey => bound'[e] = bound[e]]_vars

\* A configured key that can read an account is confirmed for it or set aside
\* at last, whichever slot it is in, unless it is revoked or replaced.
Settled(k) == k \in conflicted \/ \E e \in Env : bound[e] = k
InUse(k) == scope[k] # {} /\ \E e \in Env : slot[e] = k

KeySettles == \A k \in Keys : InUse(k) ~> (Settled(k) \/ ~InUse(k))

\* Whatever reads succeed, fail or go unheard, the service keeps the promise of
\* KeyPromise: the first key that is stored holds an environment, another one for
\* the same account imports nothing more, and reports are of the holder's reads.
Reported == [e \in Env |-> IF last[e].result = "ok" THEN last[e].key ELSE NoKey]

Promise == INSTANCE KeyPromise WITH
    holder <- bound, aside <- conflicted, history <- imported, reported <- Reported

KeepsKeyPromise == Promise!Spec
=============================================================================
