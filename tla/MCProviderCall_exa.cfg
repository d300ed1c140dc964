SPECIFICATION Spec
CONSTANT Backends = {"exa_auto"}
INVARIANT FaultTrips
CHECK_DEADLOCK FALSE
