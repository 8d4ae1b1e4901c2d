SPECIFICATION Spec
INVARIANT HandlerAsserts
CHECK_DEADLOCK FALSE
