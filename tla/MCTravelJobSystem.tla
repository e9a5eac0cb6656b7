-------------------------- MODULE MCTravelJobSystem -------------------------
(* Small instances of TravelJobSystem for TLC.                             *)
EXTENDS TravelJobSystem, TLC
Symmetry == Permutations(Workers) \union Permutations(LeaseIds)
=============================================================================
