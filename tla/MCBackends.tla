----------------------------- MODULE MCBackends -----------------------------
(* Small instances of the database backends for TLC. *)
EXTENDS Backends

CONSTANTS m1, m2, d1, d2

\* Two mutations of different documents.
MCDocOf == (m1 :> d1) @@ (m2 :> d2)

\* A push, and one that repeats it behind another mutation.
MCBatch == {<<m1>>, <<m2, m1>>}
=============================================================================
