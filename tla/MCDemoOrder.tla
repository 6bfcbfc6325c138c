----------------------------- MODULE MCDemoOrder -----------------------------
(* DemoOrder with sets of model values, for TLC. *)
EXTENDS DemoOrder, TLC

\* Runs and handlers are interchangeable; the sweeper is not a handler.
Symmetry == Permutations(Runs) \cup Permutations(Handlers)
=============================================================================
