---------------------------- MODULE MCThreadPool ----------------------------
(* Instances of ThreadPool for TLC.                                        *)
EXTENDS ThreadPool, TLC

\* Callers, thread structures and jobs are interchangeable.
Symmetry == Permutations(Caller) \cup Permutations(Slot) \cup Permutations(Job)

=============================================================================
