-------------------------- MODULE MCServiceControl --------------------------
(* Small instances of ServiceControl for TLC. *)
EXTENDS ServiceControl, TLC

\* The settings "none" have every feature switched off, all others have both on.
MCWants == [v \in Revs |-> IF v = "none" THEN {} ELSE Features]

\* Requests and processes are interchangeable in safety runs.
Symmetry == Permutations(Requests) \cup Permutations(Pids)
==============================================================================
