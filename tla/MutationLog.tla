---------------------------- MODULE MutationLog ----------------------------
(***************************************************************************)
(* What every coordinator promises: a log in which a mutation id of a      *)
(* namespace has one sequence, to which entries are only added behind      *)
(* everything that was ever in it, whose sequences are never given away a  *)
(* second time, and which answers a push with what it has committed.       *)
(***************************************************************************)
EXTENDS Integers

VARIABLES
    log,      \* the entries [ns, seq, id] a reader can see
    ever,     \* every entry that was ever committed
    answers   \* the entries pushes were answered with

logVars == <<log, ever, answers>>

Init == log = {} /\ ever = {} /\ answers = {}

\* Some entries, perhaps none, are committed behind all earlier ones, and some
\* pushes are answered with entries that are committed.
Commit ==
    /\ log \subseteq log'
    /\ ever' = ever \cup log'
    /\ \A r \in log' \ log : \A p \in ever : p.seq < r.seq
    /\ \A r, p \in log' : (r.seq = p.seq \/ (r.ns = p.ns /\ r.id = p.id)) => r = p
    /\ answers \subseteq answers' /\ answers' \subseteq answers \cup ever'

\* Compaction takes entries out of the log.
Compact ==
    /\ log' \subseteq log
    /\ UNCHANGED <<ever, answers>>

Spec == Init /\ [][Commit \/ Compact]_logVars
=============================================================================
