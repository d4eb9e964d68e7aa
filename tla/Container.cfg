SPECIFICATION Spec
CONSTANTS
  Host = "host"
  Alien = "alien"
  Image <- MCImage
  Runtimes = {"docker", "podman", "host"}
  Jobs <- MCJobs
  Stores <- MCStores
  Registry <- MCRegistry
  MaxFaults = 2
  MaxRuns = 2
INVARIANTS TypeOK NothingLeftRunning StaleIsReported PushedIsRemote FailuresExplained
PROPERTIES OwnConfiguration
CHECK_DEADLOCK FALSE
