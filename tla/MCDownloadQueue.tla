-------------------------- MODULE MCDownloadQueue --------------------------
(* Instances of DownloadQueue for TLC. *)
EXTENDS DownloadQueue, TLC

CONSTANTS d1, d2, f1, f2, f3, o1

\* f1 and the own mutation change one document, f2 another, f3 the first again.
MCDocOf == [i \in Foreign \cup Own |-> IF i = f2 THEN d2 ELSE d1]
=============================================================================
