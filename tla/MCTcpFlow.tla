----------------------------- MODULE MCTcpFlow ------------------------------
(* TcpFlow for TLC; the sizes are in the .cfg files.                       *)
EXTENDS TcpFlow
=============================================================================
