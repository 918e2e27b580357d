---------------------------- MODULE MCRalphLoop ----------------------------
(* RalphLoop on small instances: stories a and b, b's patch creates files. *)
EXTENDS RalphLoopProperties, TLC
CONSTANTS a, b
MCStories == {a, b}
MCNewFile == {b}
MCBaseScore == [s \in MCStories |-> 100]
=============================================================================
