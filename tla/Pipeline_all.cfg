SPECIFICATION FairSpec
CONSTANTS
  app = app
  lib = lib
  tool = tool
  Build = {app, lib, tool}
  Groups <- MCGroups
  Registry <- MCRegistry
  TypeOf <- MCTypeOf
  MatchesOf <- MCMatchesOf
  Targets = {"all", "build", "github", "docker_load", "nosuch"}
INVARIANTS ResultTruthful NothingOutlivesResult GroupBarrier ExitCodeTruthful
PROPERTIES OutcomeSafe OutcomeLive Terminates
CHECK_DEADLOCK FALSE
