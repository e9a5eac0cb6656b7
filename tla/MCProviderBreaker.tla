------------------------- MODULE MCProviderBreaker --------------------------
(* A small instance of ProviderBreaker for TLC.                            *)
EXTENDS ProviderBreaker
=============================================================================
