----------------------------- MODULE MCBuildSteps -----------------------------
(* A small registry: two variants that share a name, as the Go variants do,  *)
(* and an asynchronous step; callers may also pass an unknown category.      *)
EXTENDS BuildSteps

CONSTANTS golang, debian, github

MCNameOf == (golang :> "golang") @@ (debian :> "golang") @@ (github :> "github")
MCDefaultSteps == <<<<"build", golang>>, <<"build", debian>>, <<"publish", github>>>>
=============================================================================
