---------------------------- MODULE MCTcpChannel ----------------------------
(* Model-checking instances of TcpChannel.                                 *)
EXTENDS TcpChannel, TLC

Symmetry == Permutations(Requests)
=============================================================================
