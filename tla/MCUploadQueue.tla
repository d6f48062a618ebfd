--------------------------- MODULE MCUploadQueue ---------------------------
(* Instances of UploadQueue for TLC. *)
EXTENDS UploadQueue, TLC

CONSTANTS i1, i2

\* The entries differ only by their place in the oplog.
IdSymmetry == Permutations(Id)
=============================================================================
