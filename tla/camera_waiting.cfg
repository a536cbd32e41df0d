SPECIFICATION Spec
CONSTANT MaxReconnects = 5
PROPERTY WaitingIsFree
CHECK_DEADLOCK FALSE
