----------------------------- MODULE MCDispatch -----------------------------
(* Dispatch with its ledger kept small.                                    *)
EXTENDS Dispatch
=============================================================================
