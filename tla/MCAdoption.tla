----------------------------- MODULE MCAdoption -----------------------------
(* Model-checking instance of Adoption: a stall interval of a few ticks and *)
(* a few heartbeats, so that the timer can be restarted and still expire.   *)
EXTENDS Adoption
=============================================================================
