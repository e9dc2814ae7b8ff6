------------------------------ MODULE MCLazyJob ------------------------------
(* Small instances of LazyJob for TLC.                                       *)
EXTENDS LazyJob, TLC

\* Listeners, connections, slots and process ids are interchangeable.
MCSymmetry == Permutations(Listeners) \cup Permutations(Conns)
                \cup Permutations(Starts) \cup Permutations(Pids)
=============================================================================
