----------------------------- MODULE MCRunStream -----------------------------
(* Instances of RunStream for model checking. *)
EXTENDS RunStreamProperties, TLC

(* Runs and watchers are interchangeable. *)
ProcessSymmetry == Permutations(Runs) \cup Permutations(Watchers)
=============================================================================
