------------------------------ MODULE DemoIntent ------------------------------
(***************************************************************************)
(* What the Demo order path promises, without saying how (docs/demo-btc-   *)
(* probe.md, docs/portfolio-and-decisions.md): a decision is held or       *)
(* becomes one reviewed plan; a plan becomes an intent only while no other *)
(* intent is open; an intent is sent to the broker at most once, and it is *)
(* closed only by a fill or a rejection of an order that was sent.         *)
(***************************************************************************)
EXTENDS Naturals

CONSTANT Runs

VARIABLES phase, \* how far a run has got
          sent   \* how many times its order was sent

Phase == {"none", "ready", "hold", "open", "filled", "rejected"}

Init == phase = [r \in Runs |-> "none"] /\ sent = [r \in Runs |-> 0]

Move(r, from, to) ==
    phase[r] = from /\ phase' = [phase EXCEPT ![r] = to]

Decide(r) ==
    /\ \E outcome \in {"ready", "hold"} : Move(r, "none", outcome)
    /\ UNCHANGED sent

Withdraw(r) == Move(r, "ready", "hold") /\ UNCHANGED sent

OpenIntent(r) ==
    /\ \A s \in Runs : phase[s] # "open"
    /\ Move(r, "ready", "open")
    /\ UNCHANGED sent

Send(r) ==
    /\ phase[r] = "open"
    /\ sent[r] = 0
    /\ sent' = [sent EXCEPT ![r] = 1]
    /\ UNCHANGED phase

Settle(r) ==
    /\ sent[r] = 1
    /\ \E outcome \in {"filled", "rejected"} : Move(r, "open", outcome)
    /\ UNCHANGED sent

Next ==
    \E r \in Runs : Decide(r) \/ Withdraw(r) \/ OpenIntent(r) \/ Send(r) \/ Settle(r)

Spec == Init /\ [][Next]_<<phase, sent>>
=============================================================================
