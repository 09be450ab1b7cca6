------------------------- MODULE MCJetStreamStatus -------------------------
(* Model-checking instances of JetStreamStatus.                            *)
EXTENDS JetStreamStatus
=============================================================================
