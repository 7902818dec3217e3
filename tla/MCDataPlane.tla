---------------------------- MODULE MCDataPlane ----------------------------
(***************************************************************************)
(* Model checking of module DataPlane with interchangeable adapters.       *)
(***************************************************************************)
EXTENDS DataPlane, TLC

AdapterSymmetry == Permutations(Adapters)
=============================================================================
