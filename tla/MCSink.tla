------------------------------- MODULE MCSink -------------------------------
(* The sink for TLC: the threads are interchangeable.                      *)
EXTENDS Sink, TLC

ThreadSymmetry == Permutations(Threads)

=============================================================================
