SPECIFICATION Spec
PROPERTY EnginesAgree
CHECK_DEADLOCK FALSE
