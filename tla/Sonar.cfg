SPECIFICATION FairSpec
CONSTANTS
  Build = {"b1", "b2", "b3"}
  Runtimes = {"docker", "podman"}
  Envs = {"local", "build"}
  MaxFaults = 1
  MaxRuns = 3
INVARIANTS ScansWithItsToken LostOnlyByCrash ExitExplained
PROPERTIES EveryRunEnds
CHECK_DEADLOCK FALSE
