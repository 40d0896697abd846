------------------------------ MODULE MCWizard ------------------------------
EXTENDS Wizard
=============================================================================
