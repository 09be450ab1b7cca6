----------------------------- MODULE MCStartup -----------------------------
(* Model-checking instance of Startup, which has no constants.             *)
EXTENDS Startup, TLC
=============================================================================
