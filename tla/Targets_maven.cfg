SPECIFICATION TableSpec
CONSTANTS
  Registry <- MCRegistry
  Arg <- MCArg
  ArgType <- MCArgType
  ArgMatches <- MCArgMatches
  Requested = {"all", "build", "push", "lint", "list", "compile", "nosuch"}
INVARIANT MavenIsPackaged
CHECK_DEADLOCK FALSE
