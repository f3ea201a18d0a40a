------------------------------ MODULE MCApiGate ------------------------------
(* An instance of ApiGate for TLC: one configured key, one key nobody has. *)
EXTENDS ApiGate, TLC

OneTenant == "right" :> "alpha"
=============================================================================
