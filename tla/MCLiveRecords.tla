--------------------------- MODULE MCLiveRecords ---------------------------
(* Model-checking instances of LiveRecords.                                *)
EXTENDS LiveRecords
=============================================================================
