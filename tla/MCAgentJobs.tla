---------------------------- MODULE MCAgentJobs ----------------------------
(* One process dispatches a story through NemoClaw and, for a person, a    *)
(* smoke test through the adapter.                                         *)
EXTENDS AgentJobs, TLC

CONSTANTS story, smoke, daemon, old, new
MCOwner == [t \in {story, smoke} |-> daemon]
MCPatches == {[path |-> old, new |-> FALSE], [path |-> new, new |-> TRUE]}
MCAttempts == (story :> 3) @@ (smoke :> 1)
MCWants == [t \in {story, smoke} |-> {new}]
=============================================================================
