--------------------------- MODULE MCReplySession ---------------------------
(* Small instances of ReplySession for TLC. *)
EXTENDS ReplySession, TLC

Symmetry == Permutations(Replies) \union Permutations(Kinds)
=============================================================================
