--------------------------- MODULE MCReplayPipeline ---------------------------
(* ReplayPipeline with sets of model values, for TLC. *)
EXTENDS ReplayPipeline, TLC

\* Keys, workers, inputs and datasets are each interchangeable.
Symmetry ==
    Permutations(Keys) \cup Permutations(Workers)
    \cup Permutations(Inputs) \cup Permutations(Versions)
=============================================================================
