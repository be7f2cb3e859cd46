----------------------------- MODULE MCPipeline -----------------------------
(* The pipelines for TLC: threads and callsites of a kind are              *)
(* interchangeable.                                                        *)
EXTENDS Pipeline, TLC

Symmetry == Permutations(Threads) \union Permutations(EventSites)

=============================================================================
