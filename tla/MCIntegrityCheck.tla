--------------------------- MODULE MCIntegrityCheck ---------------------------
(***************************************************************************)
(* IntegrityCheck for TLC: the files are versions of one file, each in its *)
(* place in the order of the folder.                                       *)
(***************************************************************************)
EXTENDS IntegrityCheck

CONSTANTS f1, f2

MCFiles == {f1, f2}

(* The folder has f1 before f2. *)
MCLater == [f \in MCFiles |-> IF f = f1 THEN {f2} ELSE {}]
==============================================================================
