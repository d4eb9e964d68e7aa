--------------------------- MODULE MCDefaultTargets ---------------------------
(* Every build type and variant, and a value of "from" that names none, with *)
(* all switches on or off, and three steps that hooks have added: one whose  *)
(* alias is taken for some build types, one called like a built-in target,   *)
(* and one that shares a step's name under another alias.                    *)
EXTENDS DefaultTargets

MCHookSteps ==
  << Entry("hook", "build", "", FALSE), Entry("audit", "list", "GoLang", FALSE),
     Entry("golang", "compile", "", FALSE) >>
MCRegistry == EngineSteps \o MCHookSteps
MCArg == [type : BuildType, from : Variant \cup {"ubuntu"}, on : {{}, Switch}, hooks : SUBSET (23..25)]
MCArgType == [b \in MCArg |-> b.type]
MCArgMatches == [b \in MCArg |-> MatchedSteps(b) \cup b.hooks]
=============================================================================
