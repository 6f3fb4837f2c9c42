SPECIFICATION Spec
CONSTANT MaxConns = 2
INVARIANT ReconnectUsable
CHECK_DEADLOCK FALSE
