SPECIFICATION Spec
CONSTANT Backends = {"brave", "tavily", "serper", "parallel", "exa_api", "exa_mcp", "exa_auto", "exa_both"}
INVARIANTS TypeOK ReportedOnce CallerNeverTripsWrapped FaultTripsUnwrapped ReasonIsEvidence
PROPERTY CallEnds
CHECK_DEADLOCK FALSE
