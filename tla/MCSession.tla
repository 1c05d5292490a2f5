------------------------------- MODULE MCSession -------------------------------
(* Two arrays, two slots of the file table and three streams, a stack of   *)
(* two.  Which array, slot and stream it is makes no difference.           *)
EXTENDS Session, TLC

Symmetry == Permutations(Arrays) \cup Permutations(Ports) \cup Permutations(Files)

===============================================================================
