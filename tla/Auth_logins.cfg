SPECIFICATION Spec
CONSTANT MaxConns = 3
INVARIANTS CredentialsAreFresh LeftOpenAfterAnswer AttemptKeepsConnection
CHECK_DEADLOCK FALSE
