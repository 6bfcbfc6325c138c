---------------------------- MODULE ReplayPromise ----------------------------
(***************************************************************************)
(* What a caller of the replay API may rely on: a key is bound to one      *)
(* experiment and one dataset when the run is accepted, the run then has   *)
(* exactly one outcome, and a result is that of the bound experiment on    *)
(* the bound dataset.                                                      *)
(***************************************************************************)
CONSTANTS Keys, Inputs, NoInput, Versions, NoVersion

VARIABLE run

NoResult == <<NoInput, NoVersion>>

Init == run = [k \in Keys |-> [status |-> "none", input |-> NoInput,
                               hash |-> NoVersion, result |-> NoResult]]

Accept(k) ==
    /\ run[k].status = "none"
    /\ \E x \in Inputs, v \in Versions :
         run' = [run EXCEPT ![k] = [status |-> "queued", input |-> x,
                                    hash |-> v, result |-> NoResult]]

Complete(k) ==
    /\ run[k].status = "queued"
    /\ run' = [run EXCEPT ![k].status = "completed",
                          ![k].result = <<run[k].input, run[k].hash>>]

Fail(k) ==
    /\ run[k].status = "queued"
    /\ run' = [run EXCEPT ![k].status = "failed"]

Next == \E k \in Keys : Accept(k) \/ Complete(k) \/ Fail(k)

Spec == Init /\ [][Next]_run
=============================================================================
