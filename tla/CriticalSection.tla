-------------------------- MODULE CriticalSection --------------------------
(***************************************************************************)
(* What the scheduler promises: the working tree has at most one holder,   *)
(* and changes hands only by being left first.                             *)
(***************************************************************************)
CONSTANTS Stories, Nobody

VARIABLE holder

Init == holder = Nobody

Enter(s) == holder = Nobody /\ holder' = s

Leave == holder # Nobody /\ holder' = Nobody

Next == Leave \/ \E s \in Stories : Enter(s)

Spec == Init /\ [][Next]_holder
=============================================================================
