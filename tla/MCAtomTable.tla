------------------------------ MODULE MCAtomTable ------------------------------
(* Texts whose hash values collide in the first table, and apart again in a *)
(* larger one; the phrase p1 and the fault f1 have the same text.           *)
EXTENDS AtomTable, TLC

CONSTANTS p1, f1, p2, p3, p4

MCAtoms == {p1, f1, p2, p3, p4}

MCHash == p1 :> 0 @@ f1 :> 0 @@ p2 :> 4 @@ p3 :> 3 @@ p4 :> 7

===============================================================================
