--------------------------- MODULE MCCoordinator ---------------------------
(* Small instances of the coordinator for TLC. *)
EXTENDS Coordinator, TLC

CONSTANTS m1, m2, d1, d2

\* Two mutations of different documents.
MCDocOf == (m1 :> d1) @@ (m2 :> d2)
=============================================================================
