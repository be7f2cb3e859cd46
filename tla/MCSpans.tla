------------------------------ MODULE MCSpans -------------------------------
(* The spans for TLC: threads are interchangeable.                         *)
EXTENDS SpanAncestry, TLC

ThreadSymmetry == Permutations(Threads)

=============================================================================
