----------------------------- MODULE MCWinsock -----------------------------
(* Symmetry for the safety runs of module Winsock: connections are alike,  *)
(* and so are the lists and the handles that Winsock may hand out.  No run *)
(* goes on from a state whose history excuses it from both properties for  *)
(* good.                                                                   *)
EXTENDS Winsock, TLC

Symmetry ==
    Permutations(Conns) \cup Permutations(Lists) \cup Permutations(Handles \ {Listener})

Undecided == ~overlapped \/ ~(raced \/ blind \/ again)
=============================================================================
