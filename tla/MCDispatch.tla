----------------------------- MODULE MCDispatch -----------------------------
(* Model-checking instance of Dispatch, which has no constants.            *)
EXTENDS Dispatch, TLC
=============================================================================
