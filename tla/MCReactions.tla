----------------------------- MODULE MCReactions -----------------------------
(* Small instances of Reactions. *)
EXTENDS Reactions
=============================================================================
