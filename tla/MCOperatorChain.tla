--------------------------- MODULE MCOperatorChain ---------------------------
(* Two sandboxes, one of which creates its file.                           *)
EXTENDS OperatorChain
CONSTANTS a, b
MCNewFile == {b}
=============================================================================
