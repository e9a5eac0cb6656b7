--------------------------- MODULE MCInProcessJob ---------------------------
(* A small instance of InProcessJob for TLC. *)
EXTENDS InProcessJob
=============================================================================
