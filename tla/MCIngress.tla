------------------------------ MODULE MCIngress ------------------------------
(* Model-checking instances of Ingress. *)
EXTENDS Ingress
=============================================================================
