CONSTANT Faults = {"process", "terminal"}
CONSTANT MaxFaults = 3
CONSTRAINT FewFaults
SPECIFICATION Spec
INVARIANT NothingInFlight
CHECK_DEADLOCK FALSE
