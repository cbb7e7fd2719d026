CONSTANT Faults = {"process", "closing", "terminal", "recorder", "overlap", "misjudge"}
CONSTANT MaxFaults = 3
CONSTRAINT FewFaults
SPECIFICATION FairSpec
INVARIANTS TypeOK RecordedReasonStands InterruptedResumes ClosedAsks FlightsSettle ConsolidationOwed
PROPERTY StopsForGood
CHECK_DEADLOCK FALSE
