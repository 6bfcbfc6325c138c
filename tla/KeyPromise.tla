------------------------------ MODULE KeyPromise ------------------------------
(***************************************************************************)
(* What an operator may rely on, who puts user keys into the settings       *)
(* (internal/platform/broker.go; app.js:413-418 says it to the user): an   *)
(* environment belongs to the first key whose portfolio was read and       *)
(* stored, until the process restarts; a key belongs to one environment; a *)
(* second key for an environment is set aside and imports nothing more;    *)
(* and what is reported of an environment is what its own key has read.    *)
(***************************************************************************)
CONSTANTS Keys, NoKey, Env

VARIABLES holder,   \* the key an environment belongs to
          aside,    \* keys that are not used any more
          history,  \* the keys whose portfolios an environment's history has
          reported  \* the key whose portfolio the newest report is about

Init ==
    /\ holder = [e \in Env |-> NoKey]
    /\ aside = {}
    /\ history = [e \in Env |-> {}]
    /\ reported = [e \in Env |-> NoKey]

\* The portfolio of e was read with k; the process may not learn that it was stored.
Import(k, e) ==
    /\ k \notin aside
    /\ holder[e] \in {NoKey, k}
    /\ \A f \in Env \ {e} : holder[f] # k
    /\ history' = [history EXCEPT ![e] = @ \cup {k}]
    /\ reported' = [reported EXCEPT ![e] = k]
    /\ holder' \in {holder, [holder EXCEPT ![e] = k]}
    /\ UNCHANGED aside

\* k has read the account of another key.
SetAside(k, e) ==
    /\ holder[e] # NoKey
    /\ \A f \in Env : holder[f] # k
    /\ aside' = aside \cup {k}
    /\ reported' \in {reported, [reported EXCEPT ![e] = NoKey]}
    /\ UNCHANGED <<holder, history>>

\* A read of e failed.
Miss(e) ==
    /\ reported' = [reported EXCEPT ![e] = NoKey]
    /\ UNCHANGED <<holder, aside, history>>

\* The process starts again: what is stored stays.
Forget ==
    /\ holder' = [e \in Env |-> NoKey]
    /\ aside' = {}
    /\ UNCHANGED <<history, reported>>

Next ==
    \/ \E e \in Env : Miss(e) \/ \E k \in Keys : Import(k, e) \/ SetAside(k, e)
    \/ Forget

Spec == Init /\ [][Next]_<<holder, aside, history, reported>>
=============================================================================
