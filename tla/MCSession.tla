------------------------------ MODULE MCSession ------------------------------
(* A small instance of Session. *)
EXTENDS Session
=============================================================================
