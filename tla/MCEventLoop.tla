---------------------------- MODULE MCEventLoop -----------------------------
(* EventLoop with its constants as model values; see the .cfg files.       *)
EXTENDS EventLoop, TLC

Symmetry == Permutations(Slots) \cup Permutations(Bufs \ {TapBuf})
              \cup Permutations(UdpKeys) \cup Permutations(TcpKeys)
=============================================================================
