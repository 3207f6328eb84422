--------------------------- MODULE MCFileTransfer ---------------------------
(***************************************************************************)
(* Small instances of FileTransfer for TLC.                                *)
(***************************************************************************)
EXTENDS FileTransfer, TLC

\* Nothing orders slaves or sockets.
Symmetry == Permutations(Addrs) \cup Permutations(Slaves)
=============================================================================
