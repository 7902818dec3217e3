-------------------------- MODULE MCConfiguration --------------------------
(* The instance of Configuration that TLC checks.                          *)
EXTENDS Configuration, TLC

\* The clients differ in nothing but their names.
Symmetry == Permutations(Clients)
=============================================================================
