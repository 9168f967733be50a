------------------------- MODULE MCDeployResources -------------------------
(* Three resources: a chain, one resource two others need, and one that     *)
(* needs two others.                                                        *)
EXTENDS DeployResources, TLC

CONSTANTS a, b, c

Chain == a :> {} @@ b :> {a} @@ c :> {b}
Fork  == a :> {} @@ b :> {a} @@ c :> {a}
Merge == a :> {} @@ b :> {} @@ c :> {a, b}

AllRelations == {Chain, Fork, Merge}
=============================================================================
