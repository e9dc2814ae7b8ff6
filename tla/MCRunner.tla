------------------------------- MODULE MCRunner -------------------------------
(* Small instances of Runner for TLC.                                        *)
EXTENDS Runner, TLC

\* Slots and process ids are interchangeable.
MCSymmetry == Permutations(Runs) \cup Permutations(Pids) \cup Permutations(Reqs)
=============================================================================
