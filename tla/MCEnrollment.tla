---------------------------- MODULE MCEnrollment ----------------------------
(* Small instances of Enrollment. *)
EXTENDS Enrollment

CONSTANTS e1, c1

\* The conversations are alike: the first enrollment is of the first one.
MCInit == Init /\ conv[e1] = c1
MCSpec == MCInit /\ [][Next]_vars /\ Fairness
=============================================================================
