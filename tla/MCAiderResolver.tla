--------------------------- MODULE MCAiderResolver ---------------------------
(* Two runs, possibly for one issue, on a ladder of two rungs.              *)
EXTENDS AiderResolver, TLC

\* Nothing but their names tells two runs apart.
Interchangeable == Permutations(Runs)
=============================================================================
