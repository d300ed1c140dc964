SPECIFICATION Spec
CONSTANT Backends = {"brave", "tavily"}
INVARIANT CallerNeverTrips
CHECK_DEADLOCK FALSE
