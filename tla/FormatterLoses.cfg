SPECIFICATION Spec
PROPERTY FormatsFaithfully
CHECK_DEADLOCK FALSE
