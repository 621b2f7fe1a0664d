---------------------------- MODULE MCSocketHook ----------------------------
(* Small instances of SocketHook for TLC.                                  *)
EXTENDS SocketHook, TLC

Symmetry == Permutations(Sockets) \cup Permutations(Sessions)

=============================================================================
