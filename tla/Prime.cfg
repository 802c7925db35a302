SPECIFICATION Spec
CONSTANT MaxNumber = 500
INVARIANT FirstGreater
CHECK_DEADLOCK FALSE
