----------------------------- MODULE MCFnSocket -----------------------------
(* Model-checking instance of FnSocket.                                    *)
EXTENDS FnSocket, TLC
=============================================================================
