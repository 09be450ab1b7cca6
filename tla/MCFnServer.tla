----------------------------- MODULE MCFnServer -----------------------------
(* Model-checking instance of FnServer.                                    *)
EXTENDS FnServer, TLC
=============================================================================
