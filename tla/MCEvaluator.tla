------------------------------ MODULE MCEvaluator ------------------------------
(* A transformer F; an operation form h written in it; a global operation g. *)
EXTENDS Evaluator, TLC

CONSTANTS F, g, h

MCOps == {F, g, h}
MCEnv == F :> <<F>> @@ g :> <<g>> @@ h :> <<h, F>>
===============================================================================
