---------------------------- MODULE MCDaemonLock ----------------------------
(* DaemonLock with a few processes; they are interchangeable.              *)
EXTENDS DaemonLock, TLC
Interchangeable == Permutations(Pids)
=============================================================================
