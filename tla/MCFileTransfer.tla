---------------------------- MODULE MCFileTransfer ---------------------------
(***************************************************************************)
(* Transfers of three files by two threads for TLC: one that may fail to   *)
(* open, an ordinary one, and one that is no text.                         *)
(***************************************************************************)
EXTENDS FileTransfer, TLC

(* No definition tells the threads apart. *)
Symmetry == Permutations(Senders)
==============================================================================
