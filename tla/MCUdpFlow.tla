----------------------------- MODULE MCUdpFlow ------------------------------
(* UdpFlow with small sizes; see the .cfg files.                           *)
EXTENDS UdpFlow
=============================================================================
