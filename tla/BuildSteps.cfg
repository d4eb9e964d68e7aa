SPECIFICATION Spec
CONSTANTS
  golang = golang
  debian = debian
  github = github
  Step = {golang, debian, github}
  NameOf <- MCNameOf
  AsyncSteps = {github}
  DefaultSteps <- MCDefaultSteps
  CallCategory = {"auth", "build", "publish", "nosuch"}
  MaxSteps = 3
PROPERTIES StepsKept HooksKeepOrder AtCategoryEnd
CHECK_DEADLOCK FALSE
