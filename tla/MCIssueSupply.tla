--------------------------- MODULE MCIssueSupply ---------------------------
(***************************************************************************)
(* An instance of the intake.  Every chat has been shown a decomposition   *)
(* before the messages counted here, so that two messages are enough for   *)
(* two commits at once.                                                    *)
(***************************************************************************)
EXTENDS IssueSupply

(* A decomposition of two items, of which the second depends on the first  *)
(* and on one that is not there, and one of two items under one name.      *)
InTwo == <<[name |-> 1, deps |-> {}], [name |-> 2, deps |-> {1, 3}]>>
MCPlans == {InTwo, <<[name |-> 1, deps |-> {}], [name |-> 1, deps |-> {}]>>}
MCItemLabels == {{"bug"}}   \* not the resolver's label

Shown(c, p) == [phase |-> "awaiting_approval", doc |-> c, rounds |-> 0, plan |-> p]
MCInit ==
    /\ route = [key \in Chats \X Threads |-> None]
    /\ session = [c \in Chats |-> Shown(c, InTwo)]
    /\ exists = {Home}
    /\ backlog = [r \in Repos |-> None]
    /\ task = [m \in 1..Messages |-> NoTask]
    /\ edits = 0
    /\ issues = <<>>
    /\ run = [s \in Suppliers |-> None]
    /\ pull = None
    /\ stories = <<>>
MCSpec == MCInit /\ [][Next]_vars
=============================================================================
