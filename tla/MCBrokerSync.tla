---------------------------- MODULE MCBrokerSync ----------------------------
(* BrokerSync for TLC. *)
EXTENDS BrokerSync

\* One key reads Demo, the other one Real or both: enough for a key in the wrong
\* slot, two keys of one environment, and a key of both.
DemoKey == CHOOSE k \in Keys : TRUE

MCScopes ==
    {s \in [Keys -> SUBSET Env] :
        /\ s[DemoKey] = {"demo"}
        /\ \A k \in Keys \ {DemoKey} : "real" \in s[k]}
=============================================================================
