SPECIFICATION WizardSpec
CONSTANT MaxSnapshots = 3
INVARIANTS NothingUnseen TokenNamed NotLeftPairing
CHECK_DEADLOCK FALSE
