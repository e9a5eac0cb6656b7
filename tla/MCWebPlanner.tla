---------------------------- MODULE MCWebPlanner ----------------------------
(* A small instance of WebPlanner for TLC.                                 *)
EXTENDS WebPlanner
=============================================================================
