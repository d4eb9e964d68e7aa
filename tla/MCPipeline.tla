------------------------------ MODULE MCPipeline ------------------------------
(* Two groups, the first of two parallel builds; four steps: a compile step, *)
(* a linter and a notifier on their own goroutines, and a publish step.      *)
EXTENDS Pipeline

CONSTANTS app, lib, tool

Entry(name, alias, type, isAsync) == [name |-> name, alias |-> alias, type |-> type, async |-> isAsync]

MCRegistry ==
  << Entry("golang", "build", "GoLang", FALSE),
     Entry("golangci-lint", "lint", "GoLang", TRUE),
     Entry("gorelease", "release", "", FALSE),
     Entry("github", "github", "", TRUE) >>

MCGroups == << <<app, lib>>, <<tool>> >>
MCTypeOf == (app :> "GoLang") @@ (lib :> "GoLang") @@ (tool :> "Generic")
MCMatchesOf == (app :> {1, 2, 3, 4}) @@ (lib :> {1, 2}) @@ (tool :> {4})
=============================================================================
