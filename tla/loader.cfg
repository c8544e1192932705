CONSTANT Wanted = 80
SPECIFICATION Spec
INVARIANT HangsOnError
CHECK_DEADLOCK FALSE
