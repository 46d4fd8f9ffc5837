SPECIFICATION Spec
PROPERTY ProofsHold
CHECK_DEADLOCK FALSE
