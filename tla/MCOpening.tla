------------------------------ MODULE MCOpening ------------------------------
EXTENDS Opening
=============================================================================
