------------------------- MODULE MCApprovalRecords -------------------------
(* ApprovalRecords with two interchangeable records.                       *)
EXTENDS ApprovalRecords, TLC
Interchangeable == Permutations(Records)
=============================================================================
