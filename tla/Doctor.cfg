SPECIFICATION Spec
CONSTANTS
  Runtime = {"docker", "podman", "host", "test", "unknown", "invalid"}
  MaxFaults = 1
INVARIANTS ReportComplete ReadyMeansUsable DiedExplained LeftForInvestigation
CHECK_DEADLOCK FALSE
