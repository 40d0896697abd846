------------------------------ MODULE MCAccount ------------------------------
(* Small instances of Account. *)
EXTENDS Account
CONSTANT Other
TwoPaths == {Own, Other}
=============================================================================
