SPECIFICATION Spec
PROPERTY StopRunsCleanup
CHECK_DEADLOCK FALSE
